---- MODULE Spec2Model ----
(***************************************************************************)
(* API documentation generator: the endpoint store with its unique         *)
(* indexes, the create / update / duplicate handlers, the Postman and      *)
(* OpenAPI upload handlers, the OpenAPI / Markdown / HTML exporters and    *)
(* the documentation validator.                                            *)
(*                                                                         *)
(* Strings that the code takes apart (paths, versions, object keys,        *)
(* operation ids) are sequences of one-character strings.  Text that the   *)
(* code only copies, interpolates or tests for emptiness is a sequence of  *)
(* string pieces.  The empty sequence is the empty string, and also the    *)
(* absent (undefined, null) value wherever the code treats the two alike.  *)
(***************************************************************************)
EXTENDS Integers, Sequences, FiniteSets, TLC

VARIABLES
    projects,    \* the projects collection: project id -> document
    endpoints,   \* the endpoints collection, in insertion order
    nextId,      \* the next _id the endpoints collection hands out
    reqs,        \* the requests in flight, one per slot
    nStarted,    \* how many requests have been started
    resp,        \* the response sent last
    clock,       \* the reading of new Date()
    benchEps,    \* an endpoint list handed to the exporter or the validator
    benchOut     \* what the exporter, importer or validator made of it

vars == <<projects, endpoints, nextId, reqs, nStarted, resp, clock,
          benchEps, benchOut>>

(***************************************************************************)
(* Characters and strings                                                  *)
(***************************************************************************)
DigitSeq == <<"0", "1", "2", "3", "4", "5", "6", "7", "8", "9">>

UpperSeq == <<"A", "B", "C", "D", "E", "F", "G", "H", "I", "J", "K", "L", "M",
              "N", "O", "P", "Q", "R", "S", "T", "U", "V", "W", "X", "Y", "Z">>

LowerSeq == <<"a", "b", "c", "d", "e", "f", "g", "h", "i", "j", "k", "l", "m",
              "n", "o", "p", "q", "r", "s", "t", "u", "v", "w", "x", "y", "z">>

Range(s) == {s[i] : i \in 1..Len(s)}

IsDigit(c) == c \in Range(DigitSeq)

IsAlnum(c) == c \in Range(DigitSeq) \cup Range(UpperSeq) \cup Range(LowerSeq)

DigitVal(c) == (CHOOSE i \in 1..10 : DigitSeq[i] = c) - 1

toLowerCaseChar(c) ==
    IF c \in Range(UpperSeq)
    THEN LowerSeq[CHOOSE i \in 1..26 : UpperSeq[i] = c]
    ELSE c

toUpperCaseChar(c) ==
    IF c \in Range(LowerSeq)
    THEN UpperSeq[CHOOSE i \in 1..26 : LowerSeq[i] = c]
    ELSE c

toLowerCase(s) == [i \in 1..Len(s) |-> toLowerCaseChar(s[i])]

toUpperCase(s) == [i \in 1..Len(s) |-> toUpperCaseChar(s[i])]

startsWith(s, p) == Len(s) >= Len(p) /\ SubSeq(s, 1, Len(p)) = p

\* String(n) for a non-negative integer below 1000.
NumToStr(n) ==
    IF n < 10 THEN <<DigitSeq[n + 1]>>
    ELSE IF n < 100 THEN <<DigitSeq[(n \div 10) + 1], DigitSeq[(n % 10) + 1]>>
    ELSE <<DigitSeq[(n \div 100) + 1], DigitSeq[((n \div 10) % 10) + 1],
           DigitSeq[(n % 10) + 1]>>

\* The value of a string of digits.
RECURSIVE DigitsVal(_)
DigitsVal(s) ==
    IF Len(s) = 0 THEN 0
    ELSE 10 * DigitsVal(SubSeq(s, 1, Len(s) - 1)) + DigitVal(s[Len(s)])

\* The longest prefix of s made of digits.
RECURSIVE DigitPrefix(_)
DigitPrefix(s) ==
    IF Len(s) = 0 \/ ~IsDigit(s[1]) THEN <<>>
    ELSE <<s[1]>> \o DigitPrefix(Tail(s))

\* A status code read as 200 whatever the key.
parseIntDropped(s) == 200

\* parseInt(s) || 200: parseInt reads the leading digits and gives NaN when
\* there are none; NaN and 0 are falsy.
parseIntOr200(s) ==
    LET n == DigitsVal(DigitPrefix(s))
    IN  IF DigitPrefix(s) = <<>> \/ n = 0 THEN 200 ELSE n

(***************************************************************************)
(* JavaScript objects as ordered key / value lists.  Own keys enumerate    *)
(* with the integer-like keys first, in ascending numeric order, then the  *)
(* other keys in insertion order.                                          *)
(***************************************************************************)
IsArrayIndex(k) ==
    /\ Len(k) > 0
    /\ \A i \in 1..Len(k) : IsDigit(k[i])
    /\ (Len(k) = 1 \/ k[1] # "0")

ObjHas(o, k) == \E i \in 1..Len(o) : o[i][1] = k

ObjGet(o, k) == o[CHOOSE i \in 1..Len(o) : o[i][1] = k][2]

\* o[k] = v
ObjSet(o, k, v) ==
    IF ObjHas(o, k)
    THEN [i \in 1..Len(o) |-> IF o[i][1] = k THEN <<k, v>> ELSE o[i]]
    ELSE IF IsArrayIndex(k)
    THEN LET before == SelectSeq(o, LAMBDA e :
                           IsArrayIndex(e[1]) /\ DigitsVal(e[1]) < DigitsVal(k))
             after  == SelectSeq(o, LAMBDA e :
                           ~(IsArrayIndex(e[1]) /\ DigitsVal(e[1]) < DigitsVal(k)))
         IN  before \o <<(<<k, v>>)>> \o after
    ELSE Append(o, <<k, v>>)

\* Names an object literal {} inherits from Object.prototype: o[k] is a
\* function (or the prototype itself) for them, whatever was put in o.
ObjectPrototypeKeys ==
    {<<"constructor">>, <<"toString">>, <<"toLocaleString">>, <<"valueOf">>,
     <<"hasOwnProperty">>, <<"isPrototypeOf">>, <<"propertyIsEnumerable">>,
     <<"__proto__">>}

(***************************************************************************)
(* Bounds of the model                                                     *)
(***************************************************************************)
\* Requests started in one behaviour.
MaxRequests == 2

\* Requests in flight at the same time.
MaxInFlight == 2

(***************************************************************************)
(* Data model: models/Endpoint.js, models/Project.js                       *)
(***************************************************************************)
GET == <<"G", "E", "T">>

POST == <<"P", "O", "S", "T">>

PUT == <<"P", "U", "T">>

DELETE == <<"D", "E", "L", "E", "T", "E">>

PATCH == <<"P", "A", "T", "C", "H">>

HEAD == <<"H", "E", "A", "D">>

OPTIONS == <<"O", "P", "T", "I", "O", "N", "S">>

MethodEnum == {GET, POST, PUT, DELETE, PATCH, HEAD, OPTIONS}

roleHierarchy == <<"viewer", "editor", "admin">>

indexOf(seq, x) == IF \E i \in 1..Len(seq) : seq[i] = x
                   THEN (CHOOSE i \in 1..Len(seq) : seq[i] = x) - 1
                   ELSE -1

NoProject == [exists |-> FALSE]

NoBody == [present |-> FALSE, contentType |-> <<>>, required |-> FALSE,
           description |-> <<>>, example |-> <<>>]

DefaultVersion == <<"1", ".", "0", ".", "0">>

\* /^\d+\.\d+\.\d+$/ : three non-empty runs of digits separated by two dots.
SemverMatch(v) ==
    LET dots == {i \in 1..Len(v) : v[i] = "."}
    IN  /\ \A i \in 1..Len(v) : IsDigit(v[i]) \/ v[i] = "."
        /\ Cardinality(dots) = 2
        /\ 1 \notin dots
        /\ Len(v) \notin dots
        /\ \A i \in dots : i + 1 \notin dots

\* Project schema validators run by save() and by updates with runValidators;
\* the match validator passes the empty string.
ProjectSchemaValid(p) ==
    /\ p.name # <<>>
    /\ (p.version = <<>> \/ SemverMatch(p.version))

\* projectSchema.methods.hasAccess
\* req.userId of a request without a token, or on a route without auth.
NoUserId == "undefined"

\* userId.toString() of an undefined userId
hasAccessThrows(userId) == userId = NoUserId

hasAccess(project, userId, requiredRole) ==
    IF project.owner = userId THEN TRUE
    ELSE IF \E i \in 1..Len(project.collaborators) :
                project.collaborators[i].user = userId
    THEN LET collaborator == project.collaborators[
                 CHOOSE i \in 1..Len(project.collaborators) :
                     /\ project.collaborators[i].user = userId
                     /\ \A j \in 1..(i - 1) : project.collaborators[j].user # userId]
         IN  indexOf(roleHierarchy, collaborator.role)
                 >= indexOf(roleHierarchy, requiredRole)
    ELSE project.isPublic /\ requiredRole = "viewer"

\* endpointSchema.methods.generateOperationId
generateOperationId(e) ==
    toLowerCase(e.method) \o SelectSeq(e.path, IsAlnum)

\* endpointSchema.pre("save")
preSave(e) ==
    IF e.operationId = <<>>
    THEN [e EXCEPT !.operationId = generateOperationId(e)]
    ELSE e

\* The schema's validators: method enum, path starts with "/", summary
\* required, at least one response, status code in 100..599, response
\* description required (a required string fails when empty).
EndpointSchemaValid(e) ==
    /\ e.method \in MethodEnum
    /\ startsWith(e.path, <<"/">>)
    /\ e.summary # <<>>
    /\ Len(e.responses) > 0
    /\ \A i \in 1..Len(e.responses) :
           /\ e.responses[i].statusCode >= 100
           /\ e.responses[i].statusCode <= 599
           /\ e.responses[i].description # <<>>

\* The collection without the index on (projectId, method, path).
KeyIndexMissing(store, e, self) == TRUE

\* endpointSchema.index({ projectId: 1, method: 1, path: 1 }, { unique: true }):
\* no stored document other than `self` holds the key of e.
KeyIndexFree(store, e, self) ==
    \A i \in 1..Len(store) :
        store[i]._id = self \/
        ~(/\ store[i].projectId = e.projectId
          /\ store[i].method = e.method
          /\ store[i].path = e.path)

\* operationId: { unique: true, sparse: true }: one index over the whole
\* collection, whatever the project.
OperationIdIndexFree(store, e, self) ==
    \A i \in 1..Len(store) :
        store[i]._id = self \/ e.operationId = <<>> \/
        store[i].operationId # e.operationId

\* Endpoint.findOne({ projectId, method, path })
findOne(store, projectId, method, path) ==
    \E i \in 1..Len(store) :
        /\ store[i].projectId = projectId
        /\ store[i].method = method
        /\ store[i].path = path

\* Endpoint.findOne({ _id: { $ne: id }, projectId, method, path })
findOneOther(store, id, projectId, method, path) ==
    \E i \in 1..Len(store) :
        /\ store[i]._id # id
        /\ store[i].projectId = projectId
        /\ store[i].method = method
        /\ store[i].path = path

\* Endpoint.findById(id)
HasId(store, id) == \E i \in 1..Len(store) : store[i]._id = id

findById(store, id) == store[CHOOSE i \in 1..Len(store) : store[i]._id = id]

\* new Endpoint(data).save(): "ok", or the error it rejects with.
saveOutcome(store, data) ==
    LET e == preSave(data)
    IN  IF ~EndpointSchemaValid(e) THEN "ValidationError"
        ELSE IF ~KeyIndexFree(store, e, 0) THEN "E11000 key"
        ELSE IF ~OperationIdIndexFree(store, e, 0) THEN "E11000 operationId"
        ELSE "ok"

\* The document save() inserts: defaults applied, _id assigned.
savedDoc(data, id) ==
    LET e == preSave(data)
    IN  [_id |-> id, projectId |-> e.projectId, method |-> e.method,
         path |-> e.path, summary |-> e.summary, description |-> e.description,
         operationId |-> e.operationId, tags |-> e.tags,
         deprecated |-> e.deprecated, parameters |-> e.parameters,
         requestBody |-> e.requestBody, responses |-> e.responses,
         order |-> IF "order" \in DOMAIN e THEN e.order ELSE 0]

(***************************************************************************)
(* OpenAPI exporter: generateOpenAPISpec.  The document is the value the   *)
(* OpenAPI importer reads back after JSON.stringify / JSON.parse: fields   *)
(* that are undefined are dropped, which the empty sequence stands for.    *)
(***************************************************************************)
ApplicationJson == <<"application/json">>

SuccessfulResponse == <<"Successful response">>

DefaultBaseUrl == <<"https://api.example.com">>

NoOARequestBody == [present |-> FALSE, hasContent |-> FALSE, description |-> <<>>,
                    required |-> FALSE, content |-> <<>>]

\* The methods of every kind.
everyMethod == {toLowerCase(m) : m \in MethodEnum}

bodyMethods == {toLowerCase(POST), toLowerCase(PUT), toLowerCase(PATCH)}

\* { [value]: ... }: the key of a computed property is String(value), and
\* an absent value, written <<>>, gives the key "undefined".
computedKey(value) == IF value = <<>> THEN <<"undefined">> ELSE value

\* endpoints.flatMap((ep) => ep.tags || [])
RECURSIVE flatMapTags(_)
flatMapTags(eps) ==
    IF Len(eps) = 0 THEN <<>> ELSE eps[1].tags \o flatMapTags(Tail(eps))

\* Each value once, at its last occurrence.
RECURSIVE uniqueKeepLast(_)
uniqueKeepLast(s) ==
    IF Len(s) = 0 THEN <<>>
    ELSE LET rest == uniqueKeepLast(Tail(s))
         IN  IF s[1] \in Range(rest) THEN rest ELSE <<s[1]>> \o rest

\* [...new Set(list)]: each value once, at its first occurrence.
RECURSIVE uniqueInOrder(_)
uniqueInOrder(s) ==
    IF Len(s) = 0 THEN <<>>
    ELSE LET rest == uniqueInOrder(SubSeq(s, 1, Len(s) - 1))
         IN  IF s[Len(s)] \in Range(rest) THEN rest ELSE Append(rest, s[Len(s)])

exportParameter(param) ==
    [name |-> param.name, in |-> param.in, required |-> param.required,
     description |-> param.description, schemaType |-> param.type,
     schemaExample |-> param.example, example |-> <<>>]

exportResponse(response) ==
    [description |-> response.description,
     content |-> <<(<<ApplicationJson, [example |-> response.example]>>)>>]

\* A loop that leaves a status code it has already written alone.
RECURSIVE exportResponsesKeepFirst(_, _)
exportResponsesKeepFirst(acc, responses) ==
    IF Len(responses) = 0 THEN acc
    ELSE exportResponsesKeepFirst(
             IF ObjHas(acc, NumToStr(responses[1].statusCode)) THEN acc
             ELSE ObjSet(acc, NumToStr(responses[1].statusCode),
                         exportResponse(responses[1])),
             Tail(responses))

\* endpoint.responses.forEach(r => operation.responses[r.statusCode] = ...)
RECURSIVE exportResponses(_, _)
exportResponses(acc, responses) ==
    IF Len(responses) = 0 THEN acc
    ELSE exportResponses(
             ObjSet(acc, NumToStr(responses[1].statusCode),
                    exportResponse(responses[1])),
             Tail(responses))

exportOperation(endpoint) ==
    LET method == toLowerCase(endpoint.method)
    IN  [summary |-> endpoint.summary,
         description |-> endpoint.description,
         operationId |-> endpoint.operationId,
         tags |-> endpoint.tags,
         deprecated |-> endpoint.deprecated,
         parameters |-> [i \in 1..Len(endpoint.parameters) |->
                            exportParameter(endpoint.parameters[i])],
         requestBody |->
             IF endpoint.requestBody.present /\ method \in bodyMethods
             THEN [present |-> TRUE, hasContent |-> TRUE,
                   description |-> endpoint.requestBody.description,
                   required |-> endpoint.requestBody.required,
                   content |-> <<(<<computedKey(endpoint.requestBody.contentType),
                                    [example |-> endpoint.requestBody.example]>>)>>]
             ELSE NoOARequestBody,
         hasResponses |-> TRUE,
         responses |->
             IF Len(endpoint.responses) > 0
             THEN exportResponses(<<>>, endpoint.responses)
             ELSE <<(<<NumToStr(200),
                       [description |-> SuccessfulResponse, content |-> <<>>]>>)>>]

\* A loop that starts the path item afresh for every endpoint.
RECURSIVE exportPathsLastWrite(_, _)
exportPathsLastWrite(paths, eps) ==
    IF Len(eps) = 0 THEN paths
    ELSE exportPathsLastWrite(
             ObjSet(paths, eps[1].path,
                    <<(<<toLowerCase(eps[1].method), exportOperation(eps[1])>>)>>),
             Tail(eps))

\* endpoints.forEach: openApiSpec.paths[pathKey][method] = operation
RECURSIVE exportPaths(_, _)
exportPaths(paths, eps) ==
    IF Len(eps) = 0 THEN paths
    ELSE LET endpoint == eps[1]
             pathKey  == endpoint.path
             started  == IF ObjHas(paths, pathKey) THEN paths
                         ELSE ObjSet(paths, pathKey, <<>>)
             item     == ObjSet(ObjGet(started, pathKey),
                                toLowerCase(endpoint.method),
                                exportOperation(endpoint))
         IN  exportPaths(ObjSet(started, pathKey, item), Tail(eps))

\* exportDocumentation, format openapi: responses.reduce((acc, res) =>
\* acc[res.statusCode] = { description: res.description })
RECURSIVE reduceResponses(_, _)
reduceResponses(acc, responses) ==
    IF Len(responses) = 0 THEN acc
    ELSE reduceResponses(
             ObjSet(acc, NumToStr(responses[1].statusCode),
                    [description |-> responses[1].description]),
             Tail(responses))

\* exportDocumentation, format openapi: the loop over the endpoints.
RECURSIVE exportDocumentationPaths(_, _)
exportDocumentationPaths(paths, eps) ==
    IF Len(eps) = 0 THEN paths
    ELSE LET endpoint == eps[1]
             pathKey  == endpoint.path
             started  == IF ObjHas(paths, pathKey) THEN paths
                         ELSE ObjSet(paths, pathKey, <<>>)
             item     == ObjSet(ObjGet(started, pathKey),
                                toLowerCase(endpoint.method),
                                [summary |-> endpoint.summary,
                                 description |-> endpoint.description,
                                 responses |->
                                     reduceResponses(<<>>, endpoint.responses)])
         IN  exportDocumentationPaths(ObjSet(started, pathKey, item), Tail(eps))

openApiSpecOf(project, eps, version) ==
    [openapi |-> version,
     hasInfo |-> TRUE,
     info |-> [title |-> project.name,
               description |-> IF project.description # <<>>
                               THEN project.description
                               ELSE <<"API documentation for ">> \o project.name,
               version |-> IF project.version # <<>> THEN project.version
                           ELSE DefaultVersion],
     serverUrl |-> IF project.baseUrl # <<>> THEN project.baseUrl
                   ELSE DefaultBaseUrl,
     hasPaths |-> TRUE,
     paths |-> exportPaths(<<>>, eps),
     tags |-> uniqueInOrder(flatMapTags(eps))]

(***************************************************************************)
(* OpenAPI importer: routes/upload.js, POST /openapi/:projectId            *)
(***************************************************************************)
supportedMethods == {toLowerCase(m) : m \in MethodEnum}

importParameter(param) ==
    [name |-> param.name,
     type |-> IF param.schemaType # <<>> THEN param.schemaType ELSE <<"string">>,
     in |-> param.in,
     required |-> param.required,
     description |-> param.description,
     example |-> IF param.example # <<>> THEN param.example
                 ELSE param.schemaExample]

importResponse(statusCode, response) ==
    [statusCode |-> parseIntOr200(statusCode),
     description |-> response.description,
     example |-> IF Len(response.content) > 0
                 THEN response.content[1][2].example
                 ELSE <<>>]

\* operation.requestBody.content[contentType] with content undefined
operationThrows(operation) ==
    operation.requestBody.present /\ ~operation.requestBody.hasContent

importOperation(projectId, path, method, operation) ==
    LET responses ==
            IF operation.hasResponses
            THEN [i \in 1..Len(operation.responses) |->
                     importResponse(operation.responses[i][1],
                                    operation.responses[i][2])]
            ELSE <<>>
        content == operation.requestBody.content
    IN  [projectId |-> projectId,
         method |-> toUpperCase(method),
         path |-> path,
         summary |-> IF operation.summary # <<>> THEN operation.summary
                     ELSE toUpperCase(method) \o <<" ">> \o path,
         description |-> operation.description,
         operationId |-> operation.operationId,
         tags |-> operation.tags,
         deprecated |-> operation.deprecated,
         parameters |-> [i \in 1..Len(operation.parameters) |->
                            importParameter(operation.parameters[i])],
         requestBody |->
             IF operation.requestBody.present
             THEN [present |-> TRUE,
                   contentType |-> IF Len(content) > 0 THEN content[1][1]
                                   ELSE ApplicationJson,
                   required |-> operation.requestBody.required,
                   description |-> operation.requestBody.description,
                   example |-> IF Len(content) > 0 THEN content[1][2].example
                               ELSE <<>>]
             ELSE NoBody,
         responses |-> IF Len(responses) = 0
                       THEN <<[statusCode |-> 200,
                               description |-> SuccessfulResponse,
                               example |-> <<>>]>>
                       ELSE responses]

\* for (const [method, operation] of Object.entries(pathItem))
RECURSIVE importPathItem(_, _, _)
importPathItem(projectId, path, pathItem) ==
    IF Len(pathItem) = 0 THEN <<>>
    ELSE (IF pathItem[1][1] \in supportedMethods
          THEN <<importOperation(projectId, path, pathItem[1][1], pathItem[1][2])>>
          ELSE <<>>)
         \o importPathItem(projectId, path, Tail(pathItem))

\* for (const [path, pathItem] of Object.entries(spec.paths))
RECURSIVE importPaths(_, _)
importPaths(projectId, paths) ==
    IF Len(paths) = 0 THEN <<>>
    ELSE importPathItem(projectId, paths[1][1], paths[1][2])
         \o importPaths(projectId, Tail(paths))

\* Whether the path / operation loop throws (a TypeError) before it ends.
importPathsThrows(paths) ==
    \E i \in 1..Len(paths) : \E j \in 1..Len(paths[i][2]) :
        /\ paths[i][2][j][1] \in supportedMethods
        /\ operationThrows(paths[i][2][j][2])

\* updateData, as the fields of the project it overwrites.
openapiProjectUpdate(project, spec) ==
    IF ~spec.hasInfo THEN project
    ELSE [project EXCEPT
            !.name = IF spec.info.title # <<>> THEN spec.info.title ELSE @,
            !.description = IF spec.info.description # <<>>
                            THEN spec.info.description ELSE @,
            !.version = IF spec.info.version # <<>> THEN spec.info.version ELSE @,
            !.baseUrl = IF spec.serverUrl # <<>> THEN spec.serverUrl ELSE @]

(***************************************************************************)
(* Postman importer: routes/upload.js, POST /postman/:projectId            *)
(***************************************************************************)
HttpPrefix == <<"h", "t", "t", "p", ":", "/", "/">>

HttpsPrefix == <<"h", "t", "t", "p", "s", ":", "/", "/">>

\* The index of the first element of s from position `from` on that is in
\* `stops`, or Len(s) + 1.
firstOf(s, from, stops) ==
    IF \E i \in from..Len(s) : s[i] \in stops
    THEN CHOOSE i \in from..Len(s) :
             s[i] \in stops /\ \A j \in from..(i - 1) : s[j] \notin stops
    ELSE Len(s) + 1

\* Where the authority of an http(s) URL starts, 0 for any other string.
authorityStart(url) ==
    IF startsWith(url, HttpsPrefix) THEN Len(HttpsPrefix) + 1
    ELSE IF startsWith(url, HttpPrefix) THEN Len(HttpPrefix) + 1
    ELSE 0

\* new URL(url) succeeds: an http(s) URL with a host.  A string with no
\* scheme is a relative reference, which new URL rejects without a base.
urlParses(url) ==
    /\ authorityStart(url) > 0
    /\ firstOf(url, authorityStart(url), {"/", "?", "#"}) > authorityStart(url)

\* The URL path percent-encode set, as far as the model's alphabet goes.
percentEncode(c) ==
    IF c = "{" THEN <<"%", "7", "B">>
    ELSE IF c = "}" THEN <<"%", "7", "D">>
    ELSE IF c = " " THEN <<"%", "2", "0">>
    ELSE <<c>>

RECURSIVE percentEncodePath(_)
percentEncodePath(s) ==
    IF Len(s) = 0 THEN <<>>
    ELSE percentEncode(s[1]) \o percentEncodePath(Tail(s))

\* new URL(url).pathname
pathname(url) ==
    LET from == firstOf(url, authorityStart(url), {"/", "?", "#"})
        to   == firstOf(url, from, {"?", "#"})
        raw  == SubSeq(url, from, to - 1)
    IN  IF raw = <<>> THEN <<"/">> ELSE percentEncodePath(raw)

\* url.match(/^(?:https?:\/\/[^\/]+)?(\/.*)$/): the first group, <<>> when
\* there is no match.
pathMatch(url) ==
    IF startsWith(url, <<"/">>) THEN url
    ELSE IF /\ authorityStart(url) > 0
            /\ firstOf(url, authorityStart(url), {"/"}) > authorityStart(url)
            /\ firstOf(url, authorityStart(url), {"/"}) <= Len(url)
    THEN SubSeq(url, firstOf(url, authorityStart(url), {"/"}), Len(url))
    ELSE <<>>

\* The path of a leaf: lines 127-145.
postmanPath(url) ==
    LET path == IF urlParses(url) THEN pathname(url)
                ELSE IF pathMatch(url) # <<>> THEN pathMatch(url)
                ELSE <<"/">> \o url
    IN  IF ~startsWith(path, <<"/">>) THEN <<"/">> \o path ELSE path

ignoredHeaders == {<<"authorization">>, <<"content-type">>}

postmanQueryParameter(param) ==
    [name |-> param.key, type |-> <<"string">>, in |-> <<"query">>,
     required |-> FALSE, description |-> param.description,
     example |-> param.value]

postmanHeaderParameter(header) ==
    [name |-> header.key, type |-> <<"string">>, in |-> <<"header">>,
     required |-> FALSE, description |-> header.description,
     example |-> header.value]

\* bodyExample[param.key] = ...: the object, flattened to key, value, ...
RECURSIVE formExample(_, _)
formExample(params, useSrc) ==
    IF Len(params) = 0 THEN <<>>
    ELSE (IF params[1].key # <<>>
          THEN params[1].key \o
               (IF params[1].value # <<>> \/ ~useSrc THEN params[1].value
                ELSE params[1].src)
          ELSE <<>>)
         \o formExample(Tail(params), useSrc)

\* A request body that is JSON whatever its mode.
postmanRequestBodyJson(body) ==
    [present |-> TRUE, contentType |-> ApplicationJson, required |-> TRUE,
     description |-> <<>>, example |-> body.raw]

postmanRequestBody(body) ==
    IF body.mode = "raw"
    THEN [present |-> TRUE,
          contentType |-> IF body.rawIsJson THEN ApplicationJson
                          ELSE <<"text/plain">>,
          required |-> TRUE, description |-> <<>>, example |-> body.raw]
    ELSE IF body.mode = "formdata"
    THEN [present |-> TRUE, contentType |-> <<"multipart/form-data">>,
          required |-> TRUE, description |-> <<>>,
          example |-> formExample(body.formdata, TRUE)]
    ELSE IF body.mode = "urlencoded"
    THEN [present |-> TRUE,
          contentType |-> <<"application/x-www-form-urlencoded">>,
          required |-> TRUE, description |-> <<>>,
          example |-> formExample(body.urlencoded, FALSE)]
    ELSE [present |-> TRUE, contentType |-> ApplicationJson,
          required |-> TRUE, description |-> <<>>, example |-> <<>>]

\* One leaf: lines 125-242.
postmanEndpoint(projectId, item, folderPath) ==
    LET request == item.request
        method  == IF request.method # <<>> THEN toUpperCase(request.method)
                   ELSE GET
        path    == postmanPath(request.url)
    IN  [projectId |-> projectId,
         method |-> method,
         path |-> path,
         summary |-> IF item.name # <<>> THEN item.name
                     ELSE method \o <<" ">> \o path,
         description |-> request.description,
         operationId |-> <<>>,
         tags |-> IF folderPath # <<>> THEN <<folderPath>> ELSE <<>>,
         deprecated |-> FALSE,
         parameters |->
             (IF request.urlIsObject
              THEN [i \in 1..Len(SelectSeq(request.query, LAMBDA q : q.key # <<>>)) |->
                       postmanQueryParameter(
                           SelectSeq(request.query, LAMBDA q : q.key # <<>>)[i])]
              ELSE <<>>)
             \o
             [i \in 1..Len(SelectSeq(request.header, LAMBDA h :
                               h.key # <<>> /\ toLowerCase(h.key) \notin ignoredHeaders)) |->
                 postmanHeaderParameter(
                     SelectSeq(request.header, LAMBDA h :
                         h.key # <<>> /\ toLowerCase(h.key) \notin ignoredHeaders)[i])],
         requestBody |->
             IF request.body.present /\ method \in {POST, PUT, PATCH}
             THEN postmanRequestBody(request.body)
             ELSE NoBody,
         responses |-> <<[statusCode |-> 200, description |-> SuccessfulResponse,
                          example |-> <<>>]>>]

\* A traversal that tags a leaf with the folder it is in and no more.
RECURSIVE parseItemsInnermost(_, _, _)
parseItemsInnermost(projectId, items, folderPath) ==
    IF Len(items) = 0 THEN <<>>
    ELSE LET item == items[1]
         IN  (IF item.hasItem
              THEN parseItemsInnermost(projectId, item.item, item.name)
              ELSE IF item.hasRequest
              THEN <<postmanEndpoint(projectId, item, folderPath)>>
              ELSE <<>>)
             \o parseItemsInnermost(projectId, Tail(items), folderPath)

\* parseItems(items, folderPath): a node with `item` is a folder, a node
\* with `request` a leaf, any other node is passed over.  A template
\* literal writes an absent name as "undefined".
RECURSIVE parseItems(_, _, _)
parseItems(projectId, items, folderPath) ==
    IF Len(items) = 0 THEN <<>>
    ELSE LET item == items[1]
         IN  (IF item.hasItem
              THEN parseItems(projectId, item.item,
                              IF folderPath # <<>>
                              THEN folderPath \o <<"/">> \o computedKey(item.name)
                              ELSE item.name)
              ELSE IF item.hasRequest
              THEN <<postmanEndpoint(projectId, item, folderPath)>>
              ELSE <<>>)
             \o parseItems(projectId, Tail(items), folderPath)

\* Whether the traversal throws: a folder whose `item` is not an array
\* (items.forEach is not a function).
RECURSIVE parseItemsThrows(_)
parseItemsThrows(items) ==
    \E i \in 1..Len(items) :
        /\ items[i].hasItem
        /\ (~items[i].itemIsArray \/ parseItemsThrows(items[i].item))

(***************************************************************************)
(* Markdown exporter: generateMarkdownDocs.  The document is the sequence  *)
(* of the pieces the template strings concatenate.                         *)
(***************************************************************************)
RECURSIVE flatten(_)
flatten(ss) == IF Len(ss) = 0 THEN <<>> ELSE ss[1] \o flatten(Tail(ss))

\* The value as it is, without the quotes of JSON.
jsonStringifyRaw(value) == value

\* JSON.stringify(value, null, 2) of a string value
jsonStringify(value) == <<"\"">> \o value \o <<"\"">>

\* s.replace(/[^a-zA-Z0-9]/g, "-")
slug(s) == [i \in 1..Len(s) |-> IF IsAlnum(s[i]) THEN s[i] ELSE "-"]

\* s.replace(/\s+/g, "-")
RECURSIVE dashSpaces(_)
dashSpaces(s) ==
    IF Len(s) = 0 THEN <<>>
    ELSE IF s[1] = " "
    THEN (IF Len(s) > 1 /\ s[2] = " " THEN <<>> ELSE <<"-">>) \o dashSpaces(Tail(s))
    ELSE <<s[1]>> \o dashSpaces(Tail(s))

\* The emoji of a method, by name.
methodColors(method) ==
    IF method = GET THEN <<"(green)">>
    ELSE IF method = POST THEN <<"(blue)">>
    ELSE IF method = PUT THEN <<"(orange)">>
    ELSE IF method = DELETE THEN <<"(red)">>
    ELSE IF method = PATCH THEN <<"(yellow)">>
    ELSE <<"(white)">>

\* tags.forEach(tag => groupedEndpoints[tag].push(endpoint))
RECURSIVE pushUnder(_, _, _)
pushUnder(grouped, tags, endpoint) ==
    IF Len(tags) = 0 THEN grouped
    ELSE LET tag  == tags[1]
             list == IF ObjHas(grouped, tag) THEN ObjGet(grouped, tag) ELSE <<>>
         IN  pushUnder(ObjSet(grouped, tag, Append(list, endpoint)),
                       Tail(tags), endpoint)

\* The grouping pass of generateMarkdownDocs: lines 180-189.
RECURSIVE groupByTag(_, _)
groupByTag(grouped, eps) ==
    IF Len(eps) = 0 THEN grouped
    ELSE groupByTag(
             pushUnder(grouped,
                       IF Len(eps[1].tags) > 0 THEN eps[1].tags
                       ELSE <<(<<"General">>)>>,
                       eps[1]),
             Tail(eps))

\* getEndpoints: the reduce that builds groupedByTags.
RECURSIVE groupedByTags(_, _)
groupedByTags(acc, eps) ==
    IF Len(eps) = 0 THEN acc
    ELSE groupedByTags(
             IF Len(eps[1].tags) > 0
             THEN pushUnder(acc, eps[1].tags, eps[1])
             ELSE pushUnder(acc, <<(<<"untagged">>)>>, eps[1]),
             Tail(eps))

\* Whether the grouping pass throws: groupedEndpoints[tag] of a name
\* inherited from Object.prototype is there already and is no array, so
\* no list is made and groupedEndpoints[tag].push is not a function.
groupByTagThrows(eps) ==
    \E i \in 1..Len(eps) :
        \E j \in 1..Len(eps[i].tags) : eps[i].tags[j] \in ObjectPrototypeKeys

mdTocEndpoint(endpoint) ==
    <<"  - [">> \o endpoint.method \o <<" ">> \o endpoint.path \o <<"](#">>
    \o toLowerCase(endpoint.method) \o <<"-">> \o toLowerCase(slug(endpoint.path))
    \o <<")\n">>

mdTocGroup(tag, list) ==
    <<"- [">> \o tag \o <<"](#">> \o dashSpaces(toLowerCase(tag)) \o <<")\n">>
    \o flatten([i \in 1..Len(list) |-> mdTocEndpoint(list[i])])

mdParameter(param) ==
    <<"| ">> \o param.name \o <<" | ">> \o param.type \o <<" | ">> \o param.in
    \o <<" | ">> \o (IF param.required THEN <<"Yes">> ELSE <<"No">>) \o <<" | ">>
    \o (IF param.description # <<>> THEN param.description ELSE <<"-">>)
    \o <<" |\n">>

mdResponse(response) ==
    <<"**">> \o NumToStr(response.statusCode) \o <<"** - ">>
    \o response.description \o <<"\n\n">>
    \o (IF response.example # <<>>
        THEN <<"(fence json)\n">> \o jsonStringify(response.example) \o <<"\n(fence)\n\n">>
        ELSE <<>>)

mdEndpoint(endpoint) ==
    <<"### ">> \o methodColors(endpoint.method) \o <<" ">> \o endpoint.method
    \o <<" ">> \o endpoint.path \o <<"\n\n">>
    \o endpoint.summary \o <<"\n\n">>
    \o (IF endpoint.description # <<>>
        THEN endpoint.description \o <<"\n\n">> ELSE <<>>)
    \o (IF Len(endpoint.parameters) > 0
        THEN <<"#### Parameters\n\n">>
             \o <<"| Name | Type | In | Required | Description |\n">>
             \o <<"|------|------|----|---------|--------------|\n">>
             \o flatten([i \in 1..Len(endpoint.parameters) |->
                            mdParameter(endpoint.parameters[i])])
             \o <<"\n">>
        ELSE <<>>)
    \o (IF endpoint.requestBody.present /\ endpoint.method \in {POST, PUT, PATCH}
        THEN <<"#### Request Body\n\n">>
             \o <<"**Content Type:** ">> \o endpoint.requestBody.contentType
             \o <<"\n\n">>
             \o (IF endpoint.requestBody.example # <<>>
                 THEN <<"**Example:**\n\n">> \o <<"(fence json)\n">>
                      \o jsonStringify(endpoint.requestBody.example)
                      \o <<"\n(fence)\n\n">>
                 ELSE <<>>)
        ELSE <<>>)
    \o (IF Len(endpoint.responses) > 0
        THEN <<"#### Responses\n\n">>
             \o flatten([i \in 1..Len(endpoint.responses) |->
                            mdResponse(endpoint.responses[i])])
        ELSE <<>>)
    \o (IF endpoint.deprecated THEN <<"> **Deprecated:** ...\n\n">> ELSE <<>>)
    \o <<"---\n\n">>

mdGroup(tag, list) ==
    <<"## ">> \o tag \o <<"\n\n">>
    \o flatten([i \in 1..Len(list) |-> mdEndpoint(list[i])])

\* A document whose table of contents lists the endpoints one by one,
\* each under its first tag, and whose body goes by the grouping pass.
markdownTocByEndpoint(project, eps) ==
    LET groupedEndpoints == groupByTag(<<>>, eps)
    IN  <<"## Table of Contents\n\n">>
        \o flatten([i \in 1..Len(eps) |->
                       mdTocGroup(IF Len(eps[i].tags) > 0 THEN eps[i].tags[1]
                                  ELSE <<"General">>,
                                  <<eps[i]>>)])
        \o <<"\n">>
        \o flatten([i \in 1..Len(groupedEndpoints) |->
                       mdGroup(groupedEndpoints[i][1], groupedEndpoints[i][2])])

\* A document that opens with the time it was generated at.
markdownStamped(project, eps) ==
    <<"Generated at ", NumToStr(clock), "\n\n", "# ">> \o project.name

markdownOf(project, eps) ==
    LET groupedEndpoints == groupByTag(<<>>, eps)
    IN  <<"# ">> \o project.name \o <<"\n\n">>
        \o (IF project.description # <<>>
            THEN project.description \o <<"\n\n">> ELSE <<>>)
        \o <<"**Version:** ">>
        \o (IF project.version # <<>> THEN project.version ELSE DefaultVersion)
        \o <<"\n">>
        \o <<"**Base URL:** ">>
        \o (IF project.baseUrl # <<>> THEN project.baseUrl ELSE DefaultBaseUrl)
        \o <<"\n\n">>
        \o <<"## Table of Contents\n\n">>
        \o flatten([i \in 1..Len(groupedEndpoints) |->
                       mdTocGroup(groupedEndpoints[i][1], groupedEndpoints[i][2])])
        \o <<"\n">>
        \o flatten([i \in 1..Len(groupedEndpoints) |->
                       mdGroup(groupedEndpoints[i][1], groupedEndpoints[i][2])])

(***************************************************************************)
(* HTML exporter: generateHTML.  The style block is one piece.             *)
(***************************************************************************)
\* utils/helpers.js, escapeHtml: text.replace(/[&<>"']/g, (m) => map[m]).
\* generateHTML does not call it.
escapeHtml(text) ==
    [i \in 1..Len(text) |->
        IF text[i] = "&" THEN "&amp;"
        ELSE IF text[i] = "<" THEN "&lt;"
        ELSE IF text[i] = ">" THEN "&gt;"
        ELSE IF text[i] = "\"" THEN "&quot;"
        ELSE IF text[i] = "'" THEN "&#039;"
        ELSE text[i]]

\* A sidebar link that goes by the place of the endpoint in the project.
htmlSidebarLinkByOrder(ep) ==
    <<"<li><a href=\"#">> \o NumToStr(ep.order) \o <<"\">">> \o ep.method
    \o <<" ">> \o ep.path \o <<"</a></li>">>

htmlSidebarLink(ep) ==
    <<"<li><a href=\"#">> \o NumToStr(ep._id) \o <<"\">">> \o ep.method
    \o <<" ">> \o ep.path \o <<"</a></li>">>

htmlParameter(param) ==
    <<"<tr>", "<td>">> \o param.name \o <<"</td>", "<td>">> \o param.type
    \o <<"</td>", "<td>">> \o param.in \o <<"</td>", "<td>">>
    \o (IF param.required THEN <<"Yes">> ELSE <<"No">>) \o <<"</td>", "<td>">>
    \o (IF param.description # <<>> THEN param.description ELSE <<"-">>)
    \o <<"</td>", "</tr>">>

htmlResponse(response) ==
    <<"<h4>">> \o NumToStr(response.statusCode) \o <<" - ">>
    \o response.description \o <<"</h4>">>
    \o (IF response.example # <<>>
        THEN <<"<pre class=\"code\">">> \o jsonStringify(response.example)
             \o <<"</pre>">>
        ELSE <<>>)

htmlEndpoint(endpoint) ==
    <<"<div class=\"endpoint\" id=\"">> \o NumToStr(endpoint._id) \o <<"\">">>
    \o <<"<h2>", "<span class=\"method ">> \o toLowerCase(endpoint.method)
    \o <<"\">">> \o endpoint.method \o <<"</span>">> \o endpoint.path
    \o <<"</h2>">>
    \o <<"<p><strong>">> \o endpoint.summary \o <<"</strong></p>">>
    \o (IF endpoint.description # <<>>
        THEN <<"<p>">> \o endpoint.description \o <<"</p>">> ELSE <<>>)
    \o (IF Len(endpoint.parameters) > 0
        THEN <<"<h3>Parameters</h3>", "<table>", "<thead>...</thead>", "<tbody>">>
             \o flatten([i \in 1..Len(endpoint.parameters) |->
                            htmlParameter(endpoint.parameters[i])])
             \o <<"</tbody>", "</table>">>
        ELSE <<>>)
    \o (IF Len(endpoint.responses) > 0
        THEN <<"<h3>Responses</h3>">>
             \o flatten([i \in 1..Len(endpoint.responses) |->
                            htmlResponse(endpoint.responses[i])])
        ELSE <<>>)
    \o <<"</div>">>

htmlOf(project, eps) ==
    <<"<!DOCTYPE html>", "<html lang=\"en\">", "<head>", "<title>">>
    \o project.name \o <<" - API Documentation", "</title>",
                         "<style>...</style>", "</head>", "<body>">>
    \o <<"<div class=\"sidebar\">", "<h3>API Documentation</h3>", "<ul>">>
    \o flatten([i \in 1..Len(eps) |-> htmlSidebarLink(eps[i])])
    \o <<"</ul>", "</div>">>
    \o <<"<div class=\"content\">", "<div class=\"header\">", "<h1>">>
    \o project.name \o <<"</h1>", "<p>">>
    \o (IF project.description # <<>> THEN project.description
        ELSE <<"API Documentation">>)
    \o <<"</p>", "<p><strong>Version:</strong> ">>
    \o (IF project.version # <<>> THEN project.version ELSE DefaultVersion)
    \o <<"</p>", "<p><strong>Base URL:</strong> ">>
    \o (IF project.baseUrl # <<>> THEN project.baseUrl ELSE DefaultBaseUrl)
    \o <<"</p>", "</div>", "<div class=\"container\">">>
    \o flatten([i \in 1..Len(eps) |-> htmlEndpoint(eps[i])])
    \o <<"</div>", "</div>", "</body>", "</html>">>

(***************************************************************************)
(* Validator: validateDocumentation                                        *)
(***************************************************************************)
\* endpoint.path.match(/{([^}]+)}/g): the number of matches, scanning from
\* position i.  A match is "{", one or more characters other than "}",
\* and "}"; the scan resumes after the match.
RECURSIVE pathParamCount(_, _)
pathParamCount(path, i) ==
    IF i > Len(path) THEN 0
    ELSE IF path[i] = "{" /\ i + 1 <= Len(path) /\ path[i + 1] # "}"
            /\ firstOf(path, i + 1, {"}"}) <= Len(path)
    THEN 1 + pathParamCount(path, firstOf(path, i + 1, {"}"}) + 1)
    ELSE pathParamCount(path, i + 1)

\* The checks without the one on path parameters.
endpointIssuesNoPathCheck(endpoint) ==
    LET endpointPath == endpoint.method \o <<" ">> \o endpoint.path
    IN  (IF endpoint.summary = <<>> \/ \A i \in 1..Len(endpoint.summary) :
                                            endpoint.summary[i] = " "
         THEN <<endpointPath \o <<": Summary is missing">> >> ELSE <<>>)
        \o (IF Len(endpoint.responses) = 0
            THEN <<endpointPath \o <<": No responses defined">> >> ELSE <<>>)

endpointIssues(endpoint) ==
    LET endpointPath == endpoint.method \o <<" ">> \o endpoint.path
        definedPathParams ==
            SelectSeq(endpoint.parameters, LAMBDA p : p.in = <<"path">>)
    IN  (IF endpoint.summary = <<>> \/ \A i \in 1..Len(endpoint.summary) :
                                            endpoint.summary[i] = " "
         THEN <<endpointPath \o <<": Summary is missing">> >> ELSE <<>>)
        \o (IF Len(endpoint.responses) = 0
            THEN <<endpointPath \o <<": No responses defined">> >> ELSE <<>>)
        \o (IF pathParamCount(endpoint.path, 1) # Len(definedPathParams)
            THEN <<endpointPath \o <<": Path parameter count mismatch">> >>
            ELSE <<>>)

endpointWarnings(endpoint) ==
    LET endpointPath == endpoint.method \o <<" ">> \o endpoint.path
        noExample == SelectSeq(endpoint.responses, LAMBDA r : r.example = <<>>)
    IN  (IF endpoint.description = <<>>
         THEN <<endpointPath \o <<": Description is missing">> >> ELSE <<>>)
        \o (IF Len(endpoint.tags) = 0
            THEN <<endpointPath \o <<": No tags assigned">> >> ELSE <<>>)
        \o (IF endpoint.requestBody.present /\ endpoint.requestBody.example = <<>>
            THEN <<endpointPath \o <<": Request body example is missing">> >>
            ELSE <<>>)
        \o [i \in 1..Len(noExample) |->
               endpointPath \o <<": Response ">> \o NumToStr(noExample[i].statusCode)
               \o <<" example is missing">>]

validationIssues(project, eps) ==
    flatten([i \in 1..Len(eps) |-> endpointIssues(eps[i])])

validationWarnings(project, eps) ==
    (IF project.description = <<>>
     THEN <<(<<"Project description is missing">>)>> ELSE <<>>)
    \o (IF project.baseUrl = <<>> THEN <<(<<"Base URL is not set">>)>> ELSE <<>>)
    \o flatten([i \in 1..Len(eps) |-> endpointWarnings(eps[i])])

Max(a, b) == IF a >= b THEN a ELSE b

\* The score without Math.max.
scoreUnclamped(issues, warnings) ==
    100 - Len(issues) * 10 - Len(warnings) * 2

\* Math.max(0, 100 - issues.length * 10 - warnings.length * 2)
scoreOf(issues, warnings) ==
    Max(0, 100 - Len(issues) * 10 - Len(warnings) * 2)

\* The bands with their lower ends left out.
statusOfAbove(score) ==
    IF score > 80 THEN "excellent"
    ELSE IF score > 60 THEN "good"
    ELSE IF score > 40 THEN "fair"
    ELSE "poor"

statusOf(score) ==
    IF score >= 80 THEN "excellent"
    ELSE IF score >= 60 THEN "good"
    ELSE IF score >= 40 THEN "fair"
    ELSE "poor"

validationOf(project, eps) ==
    LET issues   == validationIssues(project, eps)
        warnings == validationWarnings(project, eps)
        score    == scoreOf(issues, warnings)
    IN  [score |-> score, status |-> statusOf(score),
         issues |-> issues, warnings |-> warnings]

(***************************************************************************)
(* The inputs the requests are drawn from                                  *)
(***************************************************************************)
ProjectIds == {1, 2}

Users == {"u1", "u2"}

PathA == <<"/", "a">>

PathADash == <<"/", "a", "-">>

PathUser == <<"/", "u", "/", "{", "i", "}">>

Version210 == <<"2", ".", "1", ".", "0">>

\* Not a semantic version: two numbers only.
Version20 == <<"2", ".", "0">>

OkResponse == [statusCode |-> 200, description |-> <<"OK">>, example |-> <<>>]

\* A request body that passed validateEndpoint.
EndpointBody(method, path) ==
    [method |-> method, path |-> path, summary |-> <<"s">>,
     description |-> <<>>, operationId |-> <<>>, tags |-> <<>>,
     deprecated |-> FALSE, parameters |-> <<>>, requestBody |-> NoBody,
     responses |-> <<OkResponse>>]

EndpointBodies == {EndpointBody(m, p) : m \in {GET, POST}, p \in {PathA, PathADash}}

\* req.body of createProject / updateProject: version <<>> is an absent
\* version.
ProjectBodies ==
    {[name |-> <<"Api">>, description |-> <<>>, baseUrl |-> <<>>,
      version |-> v, isPublic |-> FALSE] : v \in {<<>>, Version210, Version20}}

PlainOperation(summary) ==
    [summary |-> summary, description |-> <<>>, operationId |-> <<>>,
     tags |-> <<>>, deprecated |-> FALSE, parameters |-> <<>>,
     requestBody |-> NoOARequestBody, hasResponses |-> TRUE,
     responses |-> <<(<<NumToStr(200),
                        [description |-> <<"OK">>, content |-> <<>>]>>)>>]

NoInfo == [title |-> <<>>, description |-> <<>>, version |-> <<>>]

\* An uploaded file: `parses` tells whether JSON.parse or yaml.load accepts
\* the text, `spec` is the value parsed.
\* Two GET operations whose paths differ only in a character that is not
\* alphanumeric.
OpenapiTwoPaths ==
    [parses |-> TRUE,
     spec |-> [hasInfo |-> FALSE, info |-> NoInfo, serverUrl |-> <<>>,
               hasPaths |-> TRUE,
               paths |-> <<(<<PathA, <<(<<toLowerCase(GET), PlainOperation(<<"s">>)>>)>> >>),
                           (<<PathADash, <<(<<toLowerCase(GET), PlainOperation(<<>>)>>)>> >>)>>]]

\* One operation, and an info block whose version has two numbers.
OpenapiInfo ==
    [parses |-> TRUE,
     spec |-> [hasInfo |-> TRUE,
               info |-> [title |-> <<"Pets">>, description |-> <<>>,
                         version |-> Version20],
               serverUrl |-> <<>>,
               hasPaths |-> TRUE,
               paths |-> <<(<<PathA, <<(<<toLowerCase(POST), PlainOperation(<<"s">>)>>)>> >>)>>]]

\* An info block, and an operation whose requestBody is a $ref: it has no
\* `content`.
OpenapiRefBody ==
    [parses |-> TRUE,
     spec |-> [hasInfo |-> TRUE,
               info |-> [title |-> <<"Pets">>, description |-> <<>>,
                         version |-> Version210],
               serverUrl |-> <<>>,
               hasPaths |-> TRUE,
               paths |-> <<(<<PathA,
                              <<(<<toLowerCase(POST),
                                   [PlainOperation(<<"s">>) EXCEPT
                                      !.requestBody = [present |-> TRUE,
                                                       hasContent |-> FALSE,
                                                       description |-> <<>>,
                                                       required |-> FALSE,
                                                       content |-> <<>>]]>>)>> >>)>>]]

OpenapiNoPaths ==
    [parses |-> TRUE,
     spec |-> [hasInfo |-> TRUE,
               info |-> [title |-> <<"Pets">>, description |-> <<>>,
                         version |-> Version210],
               serverUrl |-> <<>>, hasPaths |-> FALSE, paths |-> <<>>]]

OpenapiGarbage ==
    [parses |-> FALSE,
     spec |-> [hasInfo |-> FALSE, info |-> NoInfo, serverUrl |-> <<>>,
               hasPaths |-> FALSE, paths |-> <<>>]]

OpenapiFiles ==
    {OpenapiTwoPaths, OpenapiInfo, OpenapiRefBody, OpenapiNoPaths, OpenapiGarbage}

NoPostmanBody == [present |-> FALSE, mode |-> "", rawIsJson |-> FALSE,
                  raw |-> <<>>, formdata |-> <<>>, urlencoded |-> <<>>]

PostmanRequest(method, url) ==
    [method |-> method, url |-> url, urlIsObject |-> FALSE, query |-> <<>>,
     header |-> <<>>, body |-> NoPostmanBody, description |-> <<>>]

PostmanLeaf(name, method, url) ==
    [name |-> name, hasItem |-> FALSE, itemIsArray |-> FALSE, item |-> <<>>,
     hasRequest |-> TRUE, request |-> PostmanRequest(method, url)]

PostmanFolder(name, items) ==
    [name |-> name, hasItem |-> TRUE, itemIsArray |-> TRUE, item |-> items,
     hasRequest |-> FALSE, request |-> PostmanRequest(<<>>, <<>>)]

\* A folder whose `item` is an object, not an array.
PostmanBadFolder(name) ==
    [name |-> name, hasItem |-> TRUE, itemIsArray |-> FALSE, item |-> <<>>,
     hasRequest |-> FALSE, request |-> PostmanRequest(<<>>, <<>>)]

UrlA == HttpsPrefix \o <<"h">> \o PathA

\* A folder with a GET leaf, and a POST leaf at the top level.
PostmanTwoLeaves ==
    [parses |-> TRUE, hasInfo |-> TRUE, hasItem |-> TRUE,
     item |-> <<PostmanFolder(<<"F">>, <<PostmanLeaf(<<"get a">>, <<"g", "e", "t">>, UrlA)>>),
                PostmanLeaf(<<>>, POST, PathADash)>>]

\* A leaf, then a node the traversal throws on.
PostmanLeafThenBad ==
    [parses |-> TRUE, hasInfo |-> TRUE, hasItem |-> TRUE,
     item |-> <<PostmanLeaf(<<"get a">>, GET, UrlA), PostmanBadFolder(<<"F">>)>>]

PostmanNoInfo ==
    [parses |-> TRUE, hasInfo |-> FALSE, hasItem |-> TRUE,
     item |-> <<PostmanLeaf(<<"get a">>, GET, UrlA)>>]

PostmanGarbage ==
    [parses |-> FALSE, hasInfo |-> FALSE, hasItem |-> FALSE, item |-> <<>>]

PostmanFiles ==
    {PostmanTwoLeaves, PostmanLeafThenBad, PostmanNoInfo, PostmanGarbage}

(***************************************************************************)
(* The server: requests in flight and the response sent last               *)
(***************************************************************************)
Slots == 1..MaxInFlight

Idle == [kind |-> "idle"]

NoFile == [parses |-> FALSE]

\* A response.  status, body (the specification, markdown or html), total,
\* imported and skipped are what the client receives.  The other fields
\* record what the handler did: `at` is the clock reading when it answered
\* (exports publish it as meta.generatedAt), `stage` where it failed, `dups`
\* the candidates findOne found in storage, `failed` those whose save() was
\* rejected, `fresh` whether storage held none of the candidates when the
\* import began, `alone` whether no other request ran during this one,
\* `input` the project and endpoints an export read, `repeat` whether the
\* response before this one was the same export of the same input,
\* `unlinked` whether the handler called fs.unlinkSync on the file multer
\* stored for the request.
BlankResp ==
    [at |-> 0, op |-> "none", projectId |-> 0, status |-> 0, stage |-> "",
     total |-> 0, imported |-> 0, skipped |-> 0, dups |-> 0, failed |-> 0,
     fresh |-> FALSE, alone |-> FALSE, file |-> NoFile, body |-> <<>>,
     input |-> <<>>, repeat |-> FALSE, unlinked |-> FALSE]

\* new Endpoint({ ...endpointData, projectId, method: method.toUpperCase() })
createData(projectId, b) ==
    [b EXCEPT !.method = toUpperCase(b.method)] @@ [projectId |-> projectId]

\* Project 1 of user u1 exists and holds one endpoint, POST /a, that
\* createEndpoint stored; project 2 is yet to be created.
Init ==
    /\ projects = [p \in ProjectIds |->
                     IF p = 1
                     THEN [exists |-> TRUE, owner |-> "u1", name |-> <<"Api">>,
                           description |-> <<>>, baseUrl |-> <<>>,
                           version |-> DefaultVersion, isPublic |-> FALSE,
                           collaborators |-> <<>>]
                     ELSE NoProject]
    /\ endpoints = <<savedDoc(createData(1, EndpointBody(POST, PathA)), 1)>>
    /\ nextId = 2
    /\ reqs = [s \in Slots |-> Idle]
    /\ nStarted = 0
    /\ resp = BlankResp
    /\ clock = 1
    /\ benchEps = <<>>
    /\ benchOut = [op |-> "none"]

\* The slot a new request takes.
FreeSlot == CHOOSE s \in Slots : reqs[s] = Idle /\ \A t \in 1..(s - 1) : reqs[t] # Idle

CanStart == nStarted < MaxRequests

CanAccept == CanStart /\ \E s \in Slots : reqs[s] = Idle

NoneInFlight == \A s \in Slots : reqs[s] = Idle

\* The requests in flight once another request has arrived.
Joined == [s \in Slots |->
             IF reqs[s] = Idle THEN Idle ELSE [reqs[s] EXCEPT !.alone = FALSE]]

\* A request that awaits the database again is kept in flight.
Accept(r) ==
    /\ reqs' = [Joined EXCEPT ![FreeSlot] = [r EXCEPT !.alone = NoneInFlight]]
    /\ nStarted' = nStarted + 1

\* A request answered in the step it arrived in.
Served ==
    /\ reqs' = Joined
    /\ nStarted' = nStarted + 1

Respond(r) ==
    /\ resp' = [r EXCEPT !.at = clock]
    /\ clock' = clock + 1

Answer(op, projectId, status, stage) ==
    Respond([BlankResp EXCEPT !.op = op, !.projectId = projectId,
                              !.status = status, !.stage = stage])

\* Project.findById(id), then project.hasAccess(req.userId, role): 0 when
\* the handler goes on, or the status of the AppError it throws.
accessStatus(ps, id, user, role) ==
    IF ~ps[id].exists THEN 404
    ELSE IF ~hasAccess(ps[id], user, role) THEN 403
    ELSE 0

\* The guard of the export handlers: a public project is open to anyone.
\* hasAccess is reached for a private project only, and throws a TypeError
\* for a requester without userId; an error that is no AppError is answered
\* with status 500.
readStatus(ps, id, user) ==
    IF ~ps[id].exists THEN 404
    ELSE IF ~ps[id].isPublic /\ hasAccessThrows(user) THEN 500
    ELSE IF ~ps[id].isPublic /\ ~hasAccess(ps[id], user, "viewer") THEN 403
    ELSE 0

(***************************************************************************)
(* Projects: createProject, updateProject                                  *)
(***************************************************************************)
\* validateProject: the name is there, the version is absent or semantic.
validateProject(b) ==
    /\ b.name # <<>>
    /\ (b.version = <<>> \/ SemverMatch(b.version))

newProject(b, user) ==
    [exists |-> TRUE, owner |-> user, name |-> b.name,
     description |-> b.description, baseUrl |-> b.baseUrl,
     version |-> IF b.version # <<>> THEN b.version ELSE DefaultVersion,
     isPublic |-> b.isPublic, collaborators |-> <<>>]

\* Project.findByIdAndUpdate(id, updateData, { runValidators: true })
updatedProject(project, b) ==
    [project EXCEPT !.name = b.name,
                    !.description = IF b.description # <<>> THEN b.description ELSE @,
                    !.baseUrl = IF b.baseUrl # <<>> THEN b.baseUrl ELSE @,
                    !.version = IF b.version # <<>> THEN b.version ELSE @,
                    !.isPublic = b.isPublic]

CreateProject(user, b) ==
    /\ CanStart
    /\ ~projects[2].exists
    /\ Served
    /\ IF ~validateProject(b)
       THEN /\ Answer("createProject", 2, 400, "validation")
            /\ UNCHANGED projects
       ELSE IF ~ProjectSchemaValid(newProject(b, user))
       THEN /\ Answer("createProject", 2, 500, "save")
            /\ UNCHANGED projects
       ELSE /\ projects' = [projects EXCEPT ![2] = newProject(b, user)]
            /\ Answer("createProject", 2, 201, "")
    /\ UNCHANGED <<endpoints, nextId, benchEps, benchOut>>

UpdateProject(user, id, b) ==
    /\ CanStart
    /\ Served
    /\ IF ~validateProject(b)
       THEN /\ Answer("updateProject", id, 400, "validation")
            /\ UNCHANGED projects
       ELSE IF accessStatus(projects, id, user, "editor") # 0
       THEN /\ Answer("updateProject", id,
                      accessStatus(projects, id, user, "editor"), "access")
            /\ UNCHANGED projects
       ELSE IF ~ProjectSchemaValid(updatedProject(projects[id], b))
       THEN /\ Answer("updateProject", id, 500, "save")
            /\ UNCHANGED projects
       ELSE /\ projects' = [projects EXCEPT ![id] = updatedProject(@, b)]
            /\ Answer("updateProject", id, 200, "")
    /\ UNCHANGED <<endpoints, nextId, benchEps, benchOut>>

(***************************************************************************)
(* Endpoints: createEndpoint, updateEndpoint, duplicateEndpoint.  Each     *)
(* looks for the key with findOne, and writes in a later step.             *)
(***************************************************************************)
\* The update findByIdAndUpdate applies: the fields of the body, over the
\* stored document.  No save hook runs, the operationId stays.
updatedDoc(doc, b) ==
    [doc EXCEPT !.method = toUpperCase(b.method), !.path = b.path,
                !.summary = b.summary, !.description = b.description,
                !.tags = b.tags, !.deprecated = b.deprecated,
                !.parameters = b.parameters, !.requestBody = b.requestBody,
                !.responses = b.responses]

\* findByIdAndUpdate with runValidators: "ok", or the error it rejects with.
updateOutcome(store, id, b) ==
    LET e == updatedDoc(findById(store, id), b)
    IN  IF ~EndpointSchemaValid(e) THEN "ValidationError"
        ELSE IF ~KeyIndexFree(store, e, id) THEN "E11000 key"
        ELSE "ok"

CopySuffix == <<"-", "c", "o", "p", "y">>

\* duplicateData: the original without _id and operationId, under the new
\* path and summary.
duplicateData(original, path, summary) ==
    [projectId |-> original.projectId, method |-> original.method,
     path |-> IF path # <<>> THEN path ELSE original.path \o CopySuffix,
     summary |-> IF summary # <<>> THEN summary
                 ELSE original.summary \o <<" (Copy)">>,
     description |-> original.description, operationId |-> <<>>,
     tags |-> original.tags, deprecated |-> original.deprecated,
     parameters |-> original.parameters, requestBody |-> original.requestBody,
     responses |-> original.responses, order |-> original.order]

\* The request leaves its slot with this response.
Finish(s, r) ==
    /\ reqs' = [reqs EXCEPT ![s] = Idle]
    /\ Respond(r)
    /\ UNCHANGED nStarted

WriteResp(r, status, stage) ==
    [BlankResp EXCEPT !.op = r.kind, !.projectId = r.projectId,
                      !.status = status, !.stage = stage, !.alone = r.alone]

CreateEndpointCheck(user, projectId, b) ==
    /\ CanAccept
    /\ LET status == accessStatus(projects, projectId, user, "editor")
       IN  IF status # 0
           THEN Served /\ Answer("createEndpoint", projectId, status, "access")
           ELSE IF findOne(endpoints, projectId, toUpperCase(b.method), b.path)
           THEN Served /\ Answer("createEndpoint", projectId, 400, "exists")
           ELSE /\ Accept([kind |-> "createEndpoint", projectId |-> projectId,
                           data |-> createData(projectId, b), alone |-> FALSE])
                /\ UNCHANGED <<resp, clock>>
    /\ UNCHANGED <<projects, endpoints, nextId, benchEps, benchOut>>

\* await endpoint.save(), of createEndpoint and of duplicateEndpoint
EndpointSave(s) ==
    /\ reqs[s] # Idle
    /\ reqs[s].kind \in {"createEndpoint", "duplicateEndpoint"}
    /\ LET r == reqs[s]
           outcome == saveOutcome(endpoints, r.data)
       IN  IF outcome = "ok"
           THEN /\ endpoints' = Append(endpoints, savedDoc(r.data, nextId))
                /\ nextId' = nextId + 1
                /\ Finish(s, WriteResp(r, 201, ""))
           ELSE /\ Finish(s, WriteResp(r, 500, outcome))
                /\ UNCHANGED <<endpoints, nextId>>
    /\ UNCHANGED <<projects, benchEps, benchOut>>

UpdateEndpointCheck(user, id, b) ==
    /\ CanAccept
    /\ IF ~HasId(endpoints, id)
       THEN Served /\ Answer("updateEndpoint", 0, 404, "access")
       ELSE LET endpoint == findById(endpoints, id)
                projectId == endpoint.projectId
            IN  IF ~hasAccess(projects[projectId], user, "editor")
                THEN Served /\ Answer("updateEndpoint", projectId, 403, "access")
                ELSE IF findOneOther(endpoints, id, projectId,
                                     toUpperCase(b.method), b.path)
                THEN Served /\ Answer("updateEndpoint", projectId, 400, "exists")
                ELSE /\ Accept([kind |-> "updateEndpoint",
                                projectId |-> projectId, id |-> id,
                                data |-> b, alone |-> FALSE])
                     /\ UNCHANGED <<resp, clock>>
    /\ UNCHANGED <<projects, endpoints, nextId, benchEps, benchOut>>

UpdateEndpointWrite(s) ==
    /\ reqs[s] # Idle
    /\ reqs[s].kind = "updateEndpoint"
    /\ LET r == reqs[s]
           outcome == updateOutcome(endpoints, r.id, r.data)
       IN  IF outcome = "ok"
           THEN /\ endpoints' = [i \in 1..Len(endpoints) |->
                                   IF endpoints[i]._id = r.id
                                   THEN updatedDoc(endpoints[i], r.data)
                                   ELSE endpoints[i]]
                /\ Finish(s, WriteResp(r, 200, ""))
           ELSE /\ Finish(s, WriteResp(r, 500, outcome))
                /\ UNCHANGED endpoints
    /\ UNCHANGED <<projects, nextId, benchEps, benchOut>>

DuplicateEndpointCheck(user, id) ==
    /\ CanAccept
    /\ IF ~HasId(endpoints, id)
       THEN Served /\ Answer("duplicateEndpoint", 0, 404, "access")
       ELSE LET original == findById(endpoints, id)
                projectId == original.projectId
                data == duplicateData(original, <<>>, <<>>)
            IN  IF ~hasAccess(projects[projectId], user, "editor")
                THEN Served /\ Answer("duplicateEndpoint", projectId, 403, "access")
                ELSE IF findOne(endpoints, projectId, data.method, data.path)
                THEN Served /\ Answer("duplicateEndpoint", projectId, 400, "exists")
                ELSE /\ Accept([kind |-> "duplicateEndpoint",
                                projectId |-> projectId, data |-> data,
                                alone |-> FALSE])
                     /\ UNCHANGED <<resp, clock>>
    /\ UNCHANGED <<projects, endpoints, nextId, benchEps, benchOut>>

(***************************************************************************)
(* Uploads: POST /postman/:projectId, POST /openapi/:projectId             *)
(***************************************************************************)
\* A catch block that throws every error on as it is: an error that is no
\* AppError reaches the client as a server error.
caughtStatusThrownOn(isAppError, statusCode) ==
    IF isAppError THEN statusCode ELSE 500

\* The catch block of an upload handler: an AppError is thrown on with its
\* own status, any other error is wrapped in an AppError with status 400.
caughtStatus(isAppError, statusCode) ==
    IF isAppError THEN statusCode ELSE 400

\* Whether storage holds none of the candidates.
noneStored(store, candidates) ==
    \A i \in 1..Len(candidates) :
        ~findOne(store, candidates[i].projectId, candidates[i].method,
                 candidates[i].path)

ImportFailure(op, projectId, file, status) ==
    Respond([BlankResp EXCEPT !.op = op, !.projectId = projectId,
                              !.status = status, !.stage = "parse",
                              !.file = file, !.alone = NoneInFlight,
                              !.unlinked = TRUE])

\* res.json of an upload handler.
importResponse200(r) ==
    [BlankResp EXCEPT !.op = r.kind, !.projectId = r.projectId,
                      !.status = 200, !.file = r.file,
                      !.total = Len(r.candidates),
                      !.imported = r.saved,
                      !.skipped = Len(r.candidates) - r.saved,
                      !.dups = r.dups, !.failed = r.failed,
                      !.fresh = r.fresh, !.alone = r.alone,
                      !.unlinked = TRUE]

\* The save loop is entered with the candidates parsed; with none of them
\* the handler answers at once.
ImportLoop(op, projectId, file, candidates) ==
    LET r == [kind |-> op, projectId |-> projectId, file |-> file,
              candidates |-> candidates, i |-> 1, pc |-> "find",
              saved |-> 0, dups |-> 0, failed |-> 0,
              fresh |-> noneStored(endpoints, candidates),
              alone |-> NoneInFlight]
    IN  IF Len(candidates) = 0
        THEN Served /\ Respond(importResponse200(r))
        ELSE Accept(r) /\ UNCHANGED <<resp, clock>>

PostmanBegin(user, projectId, file) ==
    /\ CanAccept
    /\ LET status == accessStatus(projects, projectId, user, "editor")
       IN  IF status # 0
           THEN Served /\ Answer("importPostman", projectId, status, "access")
           ELSE IF ~file.parses
           THEN Served /\ ImportFailure("importPostman", projectId, file,
                                        caughtStatus(FALSE, 0))
           ELSE IF ~file.hasInfo \/ ~file.hasItem
           THEN Served /\ ImportFailure("importPostman", projectId, file,
                                        caughtStatus(TRUE, 400))
           ELSE IF parseItemsThrows(file.item)
           THEN Served /\ ImportFailure("importPostman", projectId, file,
                                        caughtStatus(FALSE, 0))
           ELSE ImportLoop("importPostman", projectId, file,
                           parseItems(projectId, file.item, <<>>))
    /\ UNCHANGED <<projects, endpoints, nextId, benchEps, benchOut>>

OpenapiBegin(user, projectId, file) ==
    /\ CanAccept
    /\ LET status == accessStatus(projects, projectId, user, "editor")
       IN  IF status # 0
           THEN /\ Served
                /\ Answer("importOpenAPI", projectId, status, "access")
                /\ UNCHANGED projects
           ELSE IF ~file.parses \/ ~file.spec.hasPaths
           THEN /\ Served
                /\ ImportFailure("importOpenAPI", projectId, file,
                                 caughtStatus(TRUE, 400))
                /\ UNCHANGED projects
           ELSE /\ projects' = [projects EXCEPT
                                  ![projectId] = openapiProjectUpdate(@, file.spec)]
                /\ IF importPathsThrows(file.spec.paths)
                   THEN Served /\ ImportFailure("importOpenAPI", projectId, file,
                                                caughtStatus(FALSE, 0))
                   ELSE ImportLoop("importOpenAPI", projectId, file,
                                   importPaths(projectId, file.spec.paths))
    /\ UNCHANGED <<endpoints, nextId, benchEps, benchOut>>

\* The loop goes on to the next candidate, or the handler answers.
ImportAdvance(s, r) ==
    IF r.i = Len(r.candidates)
    THEN Finish(s, importResponse200(r))
    ELSE /\ reqs' = [reqs EXCEPT ![s] = [r EXCEPT !.i = @ + 1, !.pc = "find"]]
         /\ UNCHANGED <<resp, clock, nStarted>>

\* await Endpoint.findOne({ projectId, method, path })
ImportFind(s) ==
    /\ reqs[s] # Idle
    /\ reqs[s].kind \in {"importPostman", "importOpenAPI"}
    /\ reqs[s].pc = "find"
    /\ LET r == reqs[s]
           c == r.candidates[r.i]
       IN  IF findOne(endpoints, r.projectId, c.method, c.path)
           THEN ImportAdvance(s, [r EXCEPT !.dups = @ + 1])
           ELSE /\ reqs' = [reqs EXCEPT ![s] = [r EXCEPT !.pc = "save"]]
                /\ UNCHANGED <<resp, clock, nStarted>>
    /\ UNCHANGED <<projects, endpoints, nextId, benchEps, benchOut>>

\* await endpoint.save(); an error is logged and the loop goes on
ImportSave(s) ==
    /\ reqs[s] # Idle
    /\ reqs[s].kind \in {"importPostman", "importOpenAPI"}
    /\ reqs[s].pc = "save"
    /\ LET r == reqs[s]
           c == r.candidates[r.i]
       IN  IF saveOutcome(endpoints, c) = "ok"
           THEN /\ endpoints' = Append(endpoints, savedDoc(c, nextId))
                /\ nextId' = nextId + 1
                /\ ImportAdvance(s, [r EXCEPT !.saved = @ + 1])
           ELSE /\ ImportAdvance(s, [r EXCEPT !.failed = @ + 1])
                /\ UNCHANGED <<endpoints, nextId>>
    /\ UNCHANGED <<projects, benchEps, benchOut>>

(***************************************************************************)
(* Documentation: generateOpenAPISpec, generateMarkdownDocs,               *)
(* generateHTML, validateDocumentation                                     *)
(***************************************************************************)
\* Endpoint.find({ projectId })
find(store, projectId) ==
    SelectSeq(store, LAMBDA e : e.projectId = projectId)

\* .sort("order"): ascending order, documents of equal order as stored.
RECURSIVE sortByOrder(_)
sortByOrder(eps) ==
    IF Len(eps) = 0 THEN <<>>
    ELSE LET rest == sortByOrder(SubSeq(eps, 1, Len(eps) - 1))
             last == eps[Len(eps)]
         IN  SelectSeq(rest, LAMBDA e : e.order <= last.order)
             \o <<last>>
             \o SelectSeq(rest, LAMBDA e : e.order > last.order)

OpenapiVersion == <<"3.0.0">>

\* A handler that saves the description it falls back on.
afterDefaulting(ps, id) ==
    IF ps[id].exists /\ ps[id].description = <<>>
    THEN [ps EXCEPT ![id].description = <<"API documentation">>]
    ELSE ps

\* The collections after a handler that only issues findById and find.
afterRead(ps, id) == ps

ExportOps == {"generateOpenAPISpec", "generateMarkdownDocs", "generateHTML"}

ReadOps == ExportOps \cup {"validateDocumentation"}

exportBody(op, project, eps) ==
    IF op = "generateOpenAPISpec" THEN openApiSpecOf(project, eps, OpenapiVersion)
    ELSE IF op = "generateMarkdownDocs" THEN markdownOf(project, eps)
    ELSE htmlOf(project, eps)

Export(op, user, id) ==
    /\ CanStart
    /\ Served
    /\ projects' = afterRead(projects, id)
    /\ LET status == readStatus(projects, id, user)
           input  == <<projects[id], sortByOrder(find(endpoints, id))>>
       IN  IF status # 0
           THEN Answer(op, id, status, "access")
           ELSE IF op = "generateMarkdownDocs" /\ groupByTagThrows(input[2])
           THEN Answer(op, id, 500, "render")
           ELSE Respond([BlankResp EXCEPT
                           !.op = op, !.projectId = id, !.status = 200,
                           !.alone = NoneInFlight, !.input = input,
                           !.repeat = /\ resp.op = op
                                      /\ resp.status = 200
                                      /\ resp.input = input,
                           !.body = exportBody(op, input[1], input[2])])
    /\ UNCHANGED <<endpoints, nextId, benchEps, benchOut>>

GenerateOpenAPISpec(user, id) == Export("generateOpenAPISpec", user, id)

GenerateMarkdownDocs(user, id) == Export("generateMarkdownDocs", user, id)

GenerateHTML(user, id) == Export("generateHTML", user, id)

ValidateDocumentation(user, id) ==
    /\ CanStart
    /\ Served
    /\ projects' = afterRead(projects, id)
    /\ LET status == accessStatus(projects, id, user, "viewer")
       IN  IF status # 0
           THEN Answer("validateDocumentation", id, status, "access")
           ELSE Respond([BlankResp EXCEPT
                           !.op = "validateDocumentation", !.projectId = id,
                           !.status = 200, !.alone = NoneInFlight,
                           !.body = validationOf(projects[id],
                                                 find(endpoints, id))])
    /\ UNCHANGED <<endpoints, nextId, benchEps, benchOut>>

Next ==
    \/ \E user \in Users, b \in ProjectBodies : CreateProject(user, b)
    \/ \E user \in Users, id \in ProjectIds, b \in ProjectBodies :
           UpdateProject(user, id, b)
    \/ \E user \in Users, id \in ProjectIds, b \in EndpointBodies :
           CreateEndpointCheck(user, id, b)
    \/ \E s \in Slots : EndpointSave(s)
    \/ \E user \in Users, id \in 1..(nextId - 1), b \in EndpointBodies :
           UpdateEndpointCheck(user, id, b)
    \/ \E s \in Slots : UpdateEndpointWrite(s)
    \/ \E user \in Users, id \in 1..(nextId - 1) : DuplicateEndpointCheck(user, id)
    \/ \E user \in Users, id \in ProjectIds, file \in PostmanFiles :
           PostmanBegin(user, id, file)
    \/ \E user \in Users, id \in ProjectIds, file \in OpenapiFiles :
           OpenapiBegin(user, id, file)
    \/ \E s \in Slots : ImportFind(s)
    \/ \E s \in Slots : ImportSave(s)
    \/ \E user \in Users, id \in ProjectIds : GenerateOpenAPISpec(user, id)
    \/ \E user \in Users, id \in ProjectIds : GenerateMarkdownDocs(user, id)
    \/ \E user \in Users, id \in ProjectIds : GenerateHTML(user, id)
    \/ \E user \in Users, id \in ProjectIds : ValidateDocumentation(user, id)

Spec == Init /\ [][Next]_vars

(***************************************************************************)
(* The exporter, the importer and the validator as functions: endpoint     *)
(* lists are built from stored documents and handed to them.               *)
(***************************************************************************)
\* Endpoints in one list.
MaxBench == 5

PathParameter ==
    [name |-> <<"i">>, type |-> <<"string">>, in |-> <<"path">>,
     required |-> TRUE, description |-> <<>>, example |-> <<>>]

BareResponse(statusCode) ==
    [statusCode |-> statusCode, description |-> <<"r">>, example |-> <<>>]

EmptyJsonBody ==
    [present |-> TRUE, contentType |-> ApplicationJson, required |-> TRUE,
     description |-> <<>>, example |-> <<>>]

\* A stored document with no description, no tags, a request body without
\* an example and responses without examples.
BareDoc(method, path, parameters, codes) ==
    savedDoc([EndpointBody(method, path) EXCEPT
                !.parameters = parameters,
                !.requestBody = EmptyJsonBody,
                !.responses = [i \in 1..Len(codes) |-> BareResponse(codes[i])]]
             @@ [projectId |-> 1], 0)

\* A stored document the validator finds nothing to say about.
FullDoc(method, path) ==
    savedDoc([EndpointBody(method, path) EXCEPT
                !.description = <<"d">>,
                !.tags = <<(<<"t">>)>>,
                !.responses = <<[OkResponse EXCEPT !.example = <<"{}">>]>>]
             @@ [projectId |-> 1], 0)

BenchChoices ==
    {BareDoc(GET, PathUser, <<>>, <<404, 200>>),
     BareDoc(POST, PathUser, <<>>, <<200, 200>>),
     BareDoc(PUT, PathA, <<PathParameter>>, <<500, 201>>),
     BareDoc(DELETE, PathADash, <<PathParameter>>, <<200, 404>>),
     BareDoc(PATCH, PathUser, <<>>, <<204, 200>>),
     FullDoc(GET, PathA)}

BenchProjects ==
    {[exists |-> TRUE, owner |-> "u1", name |-> <<"Api">>,
      description |-> d, baseUrl |-> <<>>, version |-> DefaultVersion,
      isPublic |-> FALSE, collaborators |-> <<>>] : d \in {<<>>, <<"d">>}}

BenchAdd(e) ==
    /\ Len(benchEps) < MaxBench
    /\ ~findOne(benchEps, e.projectId, e.method, e.path)
    /\ benchEps' = Append(benchEps, e)
    /\ UNCHANGED <<projects, endpoints, nextId, reqs, nStarted, resp, clock,
                   benchOut>>

\* generateOpenAPISpec, then the path / operation loop of the OpenAPI
\* upload over the specification it built.
BenchRoundTrip(project) ==
    /\ benchOut' =
           [op |-> "roundTrip", eps |-> benchEps,
            candidates |->
                importPaths(1, openApiSpecOf(project, benchEps,
                                             OpenapiVersion).paths)]
    /\ UNCHANGED <<projects, endpoints, nextId, reqs, nStarted, resp, clock,
                   benchEps>>

BenchValidate(project) ==
    /\ benchOut' = [op |-> "validate", eps |-> benchEps, project |-> project,
                    validation |-> validationOf(project, benchEps)]
    /\ UNCHANGED <<projects, endpoints, nextId, reqs, nStarted, resp, clock,
                   benchEps>>

RoundTripNext ==
    \/ \E e \in BenchChoices : BenchAdd(e)
    \/ \E project \in BenchProjects : BenchRoundTrip(project)

RoundTripSpec == Init /\ [][RoundTripNext]_vars

ValidateNext ==
    \/ \E e \in BenchChoices : BenchAdd(e)
    \/ \E project \in BenchProjects : BenchValidate(project)

ValidateSpec == Init /\ [][ValidateNext]_vars

(***************************************************************************)
(* Properties                                                              *)
(***************************************************************************)
ImportOps == {"importPostman", "importOpenAPI"}

\* C1: no two stored endpoints of one project have the same method and the
\* same path, whatever the interleaving of the handlers that look for the
\* key first and write later.
KeyUnique ==
    \A i, j \in 1..Len(endpoints) :
        (/\ endpoints[i].projectId = endpoints[j].projectId
         /\ endpoints[i].method = endpoints[j].method
         /\ endpoints[i].path = endpoints[j].path) => i = j

\* A write that found the key free when it looked was rejected by the index
\* on (projectId, method, path), next to the documents stored meanwhile.
KeyUniqueWitness ==
    /\ resp.stage = "E11000 key"
    /\ Len(endpoints) >= 2

\* The response completes an OpenAPI import that ran with no other request,
\* right after the import `first` of the same file into the same project.
SecondImportAfter(first, second) ==
    /\ second.at # first.at
    /\ first.op = "importOpenAPI" /\ second.op = "importOpenAPI"
    /\ first.status = 200 /\ second.status = 200
    /\ first.alone /\ second.alone
    /\ first.fresh
    /\ second.file = first.file
    /\ second.projectId = first.projectId

\* C2: of two imports in a row of one OpenAPI document into a project that
\* held none of its operations, the first reports all N candidates as
\* imported, the second reports none imported and N skipped, and the second
\* stores nothing.
TwiceImportsAllThenNone ==
    [][SecondImportAfter(resp, resp') =>
           /\ resp.imported = resp.total
           /\ resp'.imported = 0
           /\ resp'.skipped = resp'.total
           /\ endpoints' = endpoints]_vars

\* C3: a completed import reports imported + skipped = candidates, has
\* inserted every candidate whose key findOne did not find, and reports as
\* skipped exactly the candidates whose key findOne found.
ImportAccounting ==
    (resp.op \in ImportOps /\ resp.status = 200) =>
        /\ resp.imported + resp.skipped = resp.total
        /\ resp.failed = 0
        /\ resp.skipped = resp.dups

\* C4: an OpenAPI import that answers with an error has changed neither the
\* project nor the endpoints.
FailedOpenapiChangesNothing ==
    [][(/\ resp'.at # resp.at
        /\ resp'.op = "importOpenAPI"
        /\ resp'.status # 200) =>
           /\ projects' = projects
           /\ endpoints' = endpoints]_vars

\* C5: a Postman import that fails while parsing answers with a 4xx status
\* and stores no endpoint, the leaves before the failing node included.
PostmanParseFailureStoresNothing ==
    [][(/\ resp'.at # resp.at
        /\ resp'.op = "importPostman"
        /\ resp'.stage = "parse") =>
           /\ resp'.status \in 400..499
           /\ endpoints' = endpoints
           /\ projects' = projects]_vars

\* The traversal threw on a folder that came after a leaf.
PostmanParseFailureWitness ==
    /\ resp.op = "importPostman"
    /\ resp.stage = "parse"
    /\ resp.file = PostmanLeafThenBad
    /\ Len(parseItems(1, <<PostmanLeafThenBad.item[1]>>, <<>>)) = 1

\* C7: the version of every project is three numbers separated by dots.
VersionSemantic ==
    \A p \in ProjectIds : projects[p].exists => SemverMatch(projects[p].version)

\* C8: a step in which generateOpenAPISpec, generateMarkdownDocs,
\* generateHTML or validateDocumentation answers leaves every project and
\* every endpoint as it was.
ReadsChangeNothing ==
    [][(resp'.at # resp.at /\ resp'.op \in ReadOps) =>
           /\ projects' = projects
           /\ endpoints' = endpoints]_vars

\* One of the four handlers answered for a project that holds endpoints.
ReadsChangeNothingWitness ==
    /\ resp.op \in ReadOps
    /\ resp.status = 200
    /\ Len(find(endpoints, resp.projectId)) > 0

Codes(e) == [i \in 1..Len(e.responses) |-> e.responses[i].statusCode]

\* The candidate of the same method and path as the stored endpoint e.
CandidateOf(candidates, e) ==
    candidates[CHOOSE j \in 1..Len(candidates) :
                   candidates[j].method = e.method /\ candidates[j].path = e.path]

OneToOne(eps, candidates) ==
    /\ Len(candidates) = Len(eps)
    /\ \A i \in 1..Len(eps) :
           \E j \in 1..Len(candidates) :
               /\ candidates[j].method = eps[i].method
               /\ candidates[j].path = eps[i].path
               /\ candidates[j].summary = eps[i].summary

\* C6 as stated: the candidates match the exported endpoints one to one on
\* method, path, summary and the list of status codes.
RoundTripKeepsCodeList ==
    benchOut.op = "roundTrip" =>
        /\ OneToOne(benchOut.eps, benchOut.candidates)
        /\ \A i \in 1..Len(benchOut.eps) :
               Codes(CandidateOf(benchOut.candidates, benchOut.eps[i]))
                   = Codes(benchOut.eps[i])

\* C6: the candidates match the exported endpoints one to one on method,
\* path and summary, and the status codes of a candidate are those of its
\* endpoint, each once, in ascending order.
RoundTripKeepsCodeSet ==
    benchOut.op = "roundTrip" =>
        /\ OneToOne(benchOut.eps, benchOut.candidates)
        /\ \A i \in 1..Len(benchOut.eps) :
               LET codes == Codes(CandidateOf(benchOut.candidates, benchOut.eps[i]))
               IN  /\ Range(codes) = Range(Codes(benchOut.eps[i]))
                   /\ \A a, b \in 1..Len(codes) : a < b => codes[a] < codes[b]

\* A list was taken round that holds an endpoint whose status codes are not
\* in ascending order, and one that has a status code twice.
RoundTripWitness ==
    /\ benchOut.op = "roundTrip"
    /\ \E i \in 1..Len(benchOut.eps) :
           Codes(benchOut.eps[i]) = <<404, 200>>
    /\ \E i \in 1..Len(benchOut.eps) :
           Codes(benchOut.eps[i]) = <<200, 200>>

\* C10: the score is max(0, 100 - 10 * issues - 2 * warnings), an integer
\* from 0 to 100, and a validation with no fewer issues and no fewer
\* warnings than the one before has no higher score.
ScoreClampedAndMonotone ==
    [][benchOut'.op = "validate" =>
           LET v == benchOut'.validation
               raw == 100 - 10 * Len(v.issues) - 2 * Len(v.warnings)
           IN  /\ v.score = IF raw > 0 THEN raw ELSE 0
               /\ v.score \in 0..100
               /\ (/\ benchOut.op = "validate"
                   /\ Len(v.issues) >= Len(benchOut.validation.issues)
                   /\ Len(v.warnings) >= Len(benchOut.validation.warnings))
                      => v.score <= benchOut.validation.score]_vars

\* A validation whose issues and warnings weigh more than 100, after one
\* that scored above 0.
ScoreWitness ==
    /\ benchOut.op = "validate"
    /\ 10 * Len(benchOut.validation.issues)
           + 2 * Len(benchOut.validation.warnings) > 100
    /\ benchOut.validation.score = 0

(***************************************************************************)
(* The validator over documents of every kind the collection may hold,     *)
(* those written without the schema's validators included.                 *)
(***************************************************************************)
\* Endpoints in one list handed to the validator.
MaxIssueList == 3

IssueChoices ==
    {FullDoc(HEAD, PathUser),
     FullDoc(OPTIONS, PathUser),
     [FullDoc(GET, PathUser) EXCEPT !.parameters = <<PathParameter>>],
     [FullDoc(POST, PathA) EXCEPT !.tags = <<>>],
     [FullDoc(PUT, PathA) EXCEPT !.summary = <<" ">>],
     [FullDoc(DELETE, PathADash) EXCEPT !.summary = <<>>],
     [FullDoc(DELETE, PathA) EXCEPT !.responses = <<>>],
     BareDoc(GET, PathA, <<>>, <<404, 200>>),
     BareDoc(POST, PathUser, <<>>, <<200, 200>>),
     BareDoc(PATCH, PathUser, <<>>, <<204, 200>>)}

IssueProjects ==
    {[exists |-> TRUE, owner |-> "u1", name |-> <<"Api">>,
      description |-> d, baseUrl |-> u, version |-> DefaultVersion,
      isPublic |-> FALSE, collaborators |-> <<>>] :
        d \in {<<>>, <<"d">>}, u \in {<<>>, DefaultBaseUrl}}

IssueAdd(e) ==
    /\ Len(benchEps) < MaxIssueList
    /\ ~findOne(benchEps, e.projectId, e.method, e.path)
    /\ benchEps' = Append(benchEps, e)
    /\ UNCHANGED <<projects, endpoints, nextId, reqs, nStarted, resp, clock,
                   benchOut>>

IssuesNext ==
    \/ \E e \in IssueChoices : IssueAdd(e)
    \/ \E project \in IssueProjects : BenchValidate(project)

IssuesSpec == Init /\ [][IssuesNext]_vars

\* C11: the status follows from the score alone: excellent from 80 up, good
\* from 60 to 79, fair from 40 to 59, poor below 40; two issues and three
\* warnings score 74, which is good.
StatusByScore ==
    benchOut.op = "validate" =>
        LET v == benchOut.validation
        IN  /\ (v.status = "excellent") = (v.score >= 80)
            /\ (v.status = "good") = (v.score >= 60 /\ v.score < 80)
            /\ (v.status = "fair") = (v.score >= 40 /\ v.score < 60)
            /\ (v.status = "poor") = (v.score < 40)
            /\ (Len(v.issues) = 2 /\ Len(v.warnings) = 3)
                   => (v.score = 74 /\ v.status = "good")

\* A validation with exactly two issues and three warnings.
StatusByScoreWitness ==
    /\ benchOut.op = "validate"
    /\ Len(benchOut.validation.issues) = 2
    /\ Len(benchOut.validation.warnings) = 3

EndpointPath(e) == e.method \o <<" ">> \o e.path

SummaryIsMissing == <<": Summary is missing">>

NoResponsesDefined == <<": No responses defined">>

PathParameterMismatch == <<": Path parameter count mismatch">>

EntryCount(list, entry) ==
    Cardinality({i \in 1..Len(list) : list[i] = entry})

IsBlank(text) == \A i \in 1..Len(text) : text[i] = " "

\* The {param} tokens of a path whose braces are paired and not nested.
BraceTokens(path) == Cardinality({i \in 1..Len(path) : path[i] = "{"})

PathParameters(e) ==
    Cardinality({i \in 1..Len(e.parameters) : e.parameters[i].in = <<"path">>})

\* C12: the issues are one entry for each endpoint whose summary is missing
\* or blank, one for each endpoint without responses and one for each
\* endpoint whose count of {param} tokens differs from its count of path
\* parameters, and no other entry; what else the validator finds is a
\* warning.
IssuesExactlyThreeKinds ==
    benchOut.op = "validate" =>
        LET issues == benchOut.validation.issues
            eps    == benchOut.eps
        IN  /\ \A i \in 1..Len(eps) :
                   /\ EntryCount(issues, EndpointPath(eps[i]) \o SummaryIsMissing)
                          = IF IsBlank(eps[i].summary) THEN 1 ELSE 0
                   /\ EntryCount(issues, EndpointPath(eps[i]) \o NoResponsesDefined)
                          = IF Len(eps[i].responses) = 0 THEN 1 ELSE 0
                   /\ EntryCount(issues, EndpointPath(eps[i]) \o PathParameterMismatch)
                          = IF BraceTokens(eps[i].path) # PathParameters(eps[i])
                            THEN 1 ELSE 0
            /\ \A k \in 1..Len(issues) :
                   \E i \in 1..Len(eps) :
                       issues[k] \in {EndpointPath(eps[i]) \o SummaryIsMissing,
                                      EndpointPath(eps[i]) \o NoResponsesDefined,
                                      EndpointPath(eps[i]) \o PathParameterMismatch}

\* A validation of the three kinds of issue at once, next to warnings: a
\* blank summary, no responses, and /u/{i} without a path parameter.
IssuesWitness ==
    /\ benchOut.op = "validate"
    /\ Len(benchOut.validation.warnings) > 0
    /\ \E i \in 1..Len(benchOut.eps) :
           /\ benchOut.eps[i].path = PathUser
           /\ benchOut.eps[i].parameters = <<>>
           /\ EndpointPath(benchOut.eps[i]) \o PathParameterMismatch
                  \in Range(benchOut.validation.issues)
    /\ \E i \in 1..Len(benchOut.eps) :
           EndpointPath(benchOut.eps[i]) \o SummaryIsMissing
               \in Range(benchOut.validation.issues)
    /\ \E i \in 1..Len(benchOut.eps) :
           EndpointPath(benchOut.eps[i]) \o NoResponsesDefined
               \in Range(benchOut.validation.issues)

(***************************************************************************)
(* The exporters and the listing of getEndpoints as functions of the       *)
(* stored documents they are handed, sorted by `order` as find() returns   *)
(* them.  Tags, request bodies and examples are not validated on the way   *)
(* in, so the documents hold them in every shape a client may send.        *)
(***************************************************************************)
\* Endpoints in one list.
MaxDocs == 3

TextResponse(statusCode, description, example) ==
    [statusCode |-> statusCode, description |-> description,
     example |-> example]

JsonBody(example) ==
    [present |-> TRUE, contentType |-> ApplicationJson, required |-> TRUE,
     description |-> <<>>, example |-> example]

\* requestBody: { required: false }, a body without a content type.
UntypedBody ==
    [present |-> TRUE, contentType |-> <<>>, required |-> FALSE,
     description |-> <<>>, example |-> <<>>]

PathMarkup == <<"/", "<">>

\* The stored document of an endpoint whose summary is method and path.
Doc(id, method, path, tags, parameters, requestBody, responses) ==
    savedDoc([EndpointBody(method, path) EXCEPT
                !.summary = method \o <<" ">> \o path,
                !.tags = tags,
                !.parameters = parameters,
                !.requestBody = requestBody,
                !.responses = responses]
             @@ [projectId |-> 1], id)

DocsChoices ==
    {Doc(1, GET, PathA, <<(<<"b">>), (<<"a">>)>>, <<>>, NoBody,
         <<TextResponse(200, <<"OK">>, <<>>),
           TextResponse(200, <<"again">>, <<>>)>>),
     Doc(2, POST, PathA, <<(<<"a">>), (<<"2">>)>>, <<>>, JsonBody(<<"{}">>),
         <<TextResponse(201, <<"Created">>, <<"{}">>)>>),
     Doc(3, PUT, PathA, <<>>, <<>>, UntypedBody, <<>>),
     Doc(4, DELETE, PathA, <<(<<"a">>), (<<"a">>)>>, <<>>, JsonBody(<<"{}">>),
         <<TextResponse(404, <<"Not found">>, <<>>),
           TextResponse(204, <<"Gone">>, <<>>)>>),
     Doc(5, PATCH, PathADash, <<(<<"General">>)>>, <<>>, JsonBody(<<>>),
         <<TextResponse(200, <<"OK">>, <<>>)>>),
     Doc(6, GET, PathUser, <<(<<"constructor">>)>>, <<PathParameter>>, NoBody,
         <<TextResponse(200, <<"OK">>, <<>>)>>),
     Doc(7, POST, PathUser, <<>>, <<PathParameter>>, NoBody,
         <<TextResponse(200, <<"OK">>, <<>>)>>),
     [Doc(8, GET, PathMarkup, <<(<<"t">>)>>,
          <<[PathParameter EXCEPT !.description = <<"'">>]>>, NoBody,
          <<TextResponse(200, <<"\"">>, <<>>)>>)
         EXCEPT !.summary = <<"<", "b", ">">>,
                !.description = <<"a", "&", "b">>]}

DocsProjects ==
    {[exists |-> TRUE, owner |-> "u1", name |-> <<"Api">>,
      description |-> <<>>, baseUrl |-> <<>>, version |-> DefaultVersion,
      isPublic |-> FALSE, collaborators |-> <<>>],
     [exists |-> TRUE, owner |-> "u1", name |-> <<"A", "&", "B">>,
      description |-> <<"<", "i", ">">>, baseUrl |-> <<>>,
      version |-> DefaultVersion, isPublic |-> FALSE, collaborators |-> <<>>]}

\* One more stored document; what was generated from the list before it
\* is dropped.
DocsAdd(e) ==
    /\ Len(benchEps) < MaxDocs
    /\ ~findOne(benchEps, e.projectId, e.method, e.path)
    /\ benchEps' = Append(benchEps, e)
    /\ benchOut' = [op |-> "none"]
    /\ UNCHANGED <<projects, endpoints, nextId, reqs, nStarted, resp, clock>>

\* generateOpenAPISpec, and the paths of exportDocumentation?format=openapi.
BenchOpenAPI(project) ==
    /\ benchOut' =
           [op |-> "openapi", eps |-> benchEps,
            specification |-> openApiSpecOf(project, benchEps, OpenapiVersion),
            exported |-> exportDocumentationPaths(<<>>, benchEps)]
    /\ UNCHANGED <<projects, endpoints, nextId, reqs, nStarted, resp, clock,
                   benchEps>>

\* generateMarkdownDocs: the grouping pass and the document, or the throw.
BenchMarkdown(project) ==
    /\ benchOut' =
           IF groupByTagThrows(benchEps)
           THEN [op |-> "markdown", eps |-> benchEps, threw |-> TRUE,
                 grouped |-> <<>>, markdown |-> <<>>]
           ELSE [op |-> "markdown", eps |-> benchEps, threw |-> FALSE,
                 grouped |-> groupByTag(<<>>, benchEps),
                 markdown |-> markdownOf(project, benchEps)]
    /\ UNCHANGED <<projects, endpoints, nextId, reqs, nStarted, resp, clock,
                   benchEps>>

\* getEndpoints: groupedByTags, or the throw.
BenchGetEndpoints ==
    /\ benchOut' =
           IF groupByTagThrows(benchEps)
           THEN [op |-> "getEndpoints", eps |-> benchEps, threw |-> TRUE,
                 grouped |-> <<>>]
           ELSE [op |-> "getEndpoints", eps |-> benchEps, threw |-> FALSE,
                 grouped |-> groupedByTags(<<>>, benchEps)]
    /\ UNCHANGED <<projects, endpoints, nextId, reqs, nStarted, resp, clock,
                   benchEps>>

\* generateHTML
BenchHTML(project) ==
    /\ benchOut' = [op |-> "html", eps |-> benchEps, project |-> project,
                    html |-> htmlOf(project, benchEps)]
    /\ UNCHANGED <<projects, endpoints, nextId, reqs, nStarted, resp, clock,
                   benchEps>>

DocsNext ==
    \/ \E e \in DocsChoices : DocsAdd(e)
    \/ \E project \in DocsProjects : BenchOpenAPI(project)
    \/ \E project \in DocsProjects : BenchMarkdown(project)
    \/ BenchGetEndpoints
    \/ \E project \in DocsProjects : BenchHTML(project)

DocsSpec == Init /\ [][DocsNext]_vars

RECURSIVE OperationCount(_)
OperationCount(paths) ==
    IF Len(paths) = 0 THEN 0
    ELSE Len(paths[1][2]) + OperationCount(Tail(paths))

HasOperation(paths, e) ==
    /\ ObjHas(paths, e.path)
    /\ ObjHas(ObjGet(paths, e.path), toLowerCase(e.method))

OperationAt(paths, e) ==
    ObjGet(ObjGet(paths, e.path), toLowerCase(e.method))

EachOnce(paths, eps) ==
    /\ OperationCount(paths) = Len(eps)
    /\ \A i \in 1..Len(eps) :
           /\ HasOperation(paths, eps[i])
           /\ OperationAt(paths, eps[i]).summary = eps[i].summary

\* C13: for endpoints of pairwise distinct (method, path), the OpenAPI
\* document holds one operation for each endpoint, its own, at
\* paths[path][lowercase(method)], and as many operations as endpoints:
\* endpoints of one path and different methods all stay under that path.
OneOperationPerEndpoint ==
    benchOut.op = "openapi" =>
        /\ EachOnce(benchOut.specification.paths, benchOut.eps)
        /\ EachOnce(benchOut.exported, benchOut.eps)

\* An export of three endpoints of one path.
OneOperationWitness ==
    /\ benchOut.op = "openapi"
    /\ Len(benchOut.eps) = 3
    /\ \A i \in 1..3 : benchOut.eps[i].path = PathA
    /\ Len(benchOut.specification.paths) = 1

\* The places of the tags of a list: endpoint i, tag j of it.
TagPlaces(eps) ==
    UNION {{<<i, j>> : j \in 1..Len(eps[i].tags)} : i \in 1..Len(eps)}

Earlier(p, q) == p[1] < q[1] \/ (p[1] = q[1] /\ p[2] < q[2])

\* The first place a tag is at when endpoints, and the tags of each, are
\* gone through in their order.
FirstPlace(eps, tag) ==
    CHOOSE p \in TagPlaces(eps) :
        /\ eps[p[1]].tags[p[2]] = tag
        /\ \A q \in TagPlaces(eps) :
               eps[q[1]].tags[q[2]] = tag => (q = p \/ Earlier(p, q))

\* C14: the tags of the OpenAPI document are the tags the endpoints use,
\* each once, in the order of their first occurrence as the endpoints, and
\* the tags of each endpoint, come in the list handed in.
TagsInFirstSeenOrder ==
    benchOut.op = "openapi" =>
        LET tags == benchOut.specification.tags
            eps  == benchOut.eps
        IN  /\ Range(tags) = {eps[p[1]].tags[p[2]] : p \in TagPlaces(eps)}
            /\ \A i, j \in 1..Len(tags) :
                   i < j => /\ tags[i] # tags[j]
                            /\ Earlier(FirstPlace(eps, tags[i]),
                                       FirstPlace(eps, tags[j]))

\* Tags b, a, 2 in this order: neither sorted nor with the number first,
\* and a is used twice.
TagsWitness ==
    /\ benchOut.op = "openapi"
    /\ benchOut.specification.tags = <<(<<"b">>), (<<"a">>), (<<"2">>)>>
    /\ Len(flatMapTags(benchOut.eps)) > 3

\* C15: an operation of the OpenAPI document has a requestBody exactly
\* when the method of its endpoint is POST, PUT or PATCH and the endpoint
\* has a request body, and the content of that requestBody has one key, the
\* content type of the endpoint's request body (as a property key, so
\* "undefined" for a body without one).
RequestBodyOnBodyMethods ==
    benchOut.op = "openapi" =>
        \A i \in 1..Len(benchOut.eps) :
            LET e         == benchOut.eps[i]
                operation == OperationAt(benchOut.specification.paths, e)
            IN  /\ operation.requestBody.present
                       <=> (e.method \in {POST, PUT, PATCH} /\ e.requestBody.present)
                /\ operation.requestBody.present =>
                       /\ Len(operation.requestBody.content) = 1
                       /\ operation.requestBody.content[1][1] =
                              IF e.requestBody.contentType = <<>>
                              THEN <<"undefined">>
                              ELSE e.requestBody.contentType

\* An export of a POST with a body, a DELETE with a body and a PUT whose
\* body has no content type.
RequestBodyWitness ==
    /\ benchOut.op = "openapi"
    /\ \E i, j, k \in 1..Len(benchOut.eps) :
           /\ benchOut.eps[i].method = POST
           /\ benchOut.eps[i].requestBody.present
           /\ benchOut.eps[j].method = DELETE
           /\ benchOut.eps[j].requestBody.present
           /\ benchOut.eps[k].method = PUT
           /\ benchOut.eps[k].requestBody = UntypedBody

DefaultResponses ==
    <<(<<NumToStr(200), [description |-> SuccessfulResponse, content |-> <<>>]>>)>>

\* The last response of an endpoint that has the status code of response i.
LastOfCode(responses, i) ==
    CHOOSE k \in 1..Len(responses) :
        /\ responses[k].statusCode = responses[i].statusCode
        /\ \A m \in 1..Len(responses) :
               responses[m].statusCode = responses[i].statusCode => m <= k

\* C16, as the claim has it: every response of an endpoint is in the
\* operation under the key String(statusCode) with its own description,
\* and an endpoint without responses gets the one response 200,
\* "Successful response".
ResponsesKeepOwnDescription ==
    benchOut.op = "openapi" =>
        \A i \in 1..Len(benchOut.eps) :
            LET e         == benchOut.eps[i]
                operation == OperationAt(benchOut.specification.paths, e)
            IN  IF Len(e.responses) = 0
                THEN operation.responses = DefaultResponses
                ELSE \A k \in 1..Len(e.responses) :
                         LET key == NumToStr(e.responses[k].statusCode)
                         IN  /\ ObjHas(operation.responses, key)
                             /\ ObjGet(operation.responses, key).description
                                    = e.responses[k].description

\* C16: the operation has one response for each status code of its
\* endpoint, under the key String(statusCode), with the description of the
\* last response of that status code; an endpoint without responses gets the
\* one response 200, "Successful response".
ResponsesLastOfEachCode ==
    benchOut.op = "openapi" =>
        \A i \in 1..Len(benchOut.eps) :
            LET e         == benchOut.eps[i]
                operation == OperationAt(benchOut.specification.paths, e)
            IN  IF Len(e.responses) = 0
                THEN operation.responses = DefaultResponses
                ELSE /\ Len(operation.responses)
                            = Cardinality({e.responses[k].statusCode :
                                              k \in 1..Len(e.responses)})
                     /\ \A k \in 1..Len(e.responses) :
                            LET key == NumToStr(e.responses[k].statusCode)
                            IN  /\ ObjHas(operation.responses, key)
                                /\ ObjGet(operation.responses, key).description
                                       = e.responses[LastOfCode(e.responses, k)].description

\* An export of an endpoint with two responses of one status code and
\* different descriptions, an endpoint with two status codes and an
\* endpoint without responses.
ResponsesWitness ==
    /\ benchOut.op = "openapi"
    /\ \E i, j, k \in 1..Len(benchOut.eps) :
           /\ Len(benchOut.eps[i].responses) = 0
           /\ Len(benchOut.eps[j].responses) = 2
           /\ Len(OperationAt(benchOut.specification.paths,
                              benchOut.eps[j]).responses) = 1
           /\ Len(OperationAt(benchOut.specification.paths,
                              benchOut.eps[k]).responses) = 2

GroupingOps == {"markdown", "getEndpoints"}

\* The group of the endpoints without tags.
SyntheticGroup(op) == IF op = "markdown" THEN <<"General">> ELSE <<"untagged">>

FanOut(grouped, eps, synthetic) ==
    /\ \A i \in 1..Len(eps) :
           IF Len(eps[i].tags) > 0
           THEN \A j \in 1..Len(eps[i].tags) :
                    /\ ObjHas(grouped, eps[i].tags[j])
                    /\ eps[i] \in Range(ObjGet(grouped, eps[i].tags[j]))
           ELSE /\ ObjHas(grouped, synthetic)
                /\ \A g \in 1..Len(grouped) :
                       eps[i] \in Range(grouped[g][2]) <=> grouped[g][1] = synthetic
    /\ \A g \in 1..Len(grouped) : Len(grouped[g][2]) > 0

\* C17: the grouping by tag puts an endpoint with tags in the group of each
\* of its tags and an endpoint without tags in one group only, "General"
\* in generateMarkdownDocs and "untagged" in getEndpoints; every endpoint is
\* in a group and no group is empty.
TagFanOut ==
    benchOut.op \in GroupingOps =>
        /\ ~benchOut.threw
        /\ FanOut(benchOut.grouped, benchOut.eps, SyntheticGroup(benchOut.op))

\* The first place from `from` on where the document has the piece, or
\* the place after its end.
PlaceOf(md, piece, from) ==
    IF \E i \in from..Len(md) : md[i] = piece
    THEN CHOOSE i \in from..Len(md) :
             md[i] = piece /\ \A k \in from..(i - 1) : md[k] # piece
    ELSE Len(md) + 1

TextUpTo(md, i, stop) == SubSeq(md, i, PlaceOf(md, stop, i) - 1)

\* The headings between two places of a document, in their order: a group
\* with its tag, an endpoint with its "METHOD path".
Headings(md, first, last, groupMark, endpointMark, skip, stop) ==
    LET marks == {i \in first..last : md[i] \in {groupMark, endpointMark}}
        nth(k) == CHOOSE i \in marks : Cardinality({j \in marks : j <= i}) = k
    IN  [k \in 1..Cardinality(marks) |->
            IF md[nth(k)] = groupMark
            THEN <<"group", TextUpTo(md, nth(k) + 1, stop)>>
            ELSE <<"endpoint", TextUpTo(md, nth(k) + 1 + skip, stop)>>]

TocStart(md) == PlaceOf(md, "## Table of Contents\n\n", 1)

BodyStart(md) == PlaceOf(md, "## ", TocStart(md))

\* The entries of the table of contents: "- [tag](#" and
\* "  - [METHOD path](#".
TocHeadings(md) ==
    Headings(md, TocStart(md) + 1, BodyStart(md) - 1, "- [", "  - [", 0, "](#")

\* The sections of the body: "## tag" and "### (colour) METHOD path".
BodyHeadings(md) ==
    Headings(md, BodyStart(md), Len(md), "## ", "### ", 2, "\n\n")

\* C18: the table of contents of the Markdown document lists the groups
\* the body has as H2 sections, in the same order, and under each group the
\* endpoints the body has as H3 sections of that group, in the same order.
TocMatchesBody ==
    (benchOut.op = "markdown" /\ ~benchOut.threw) =>
        /\ TocStart(benchOut.markdown) <= Len(benchOut.markdown)
        /\ TocHeadings(benchOut.markdown) = BodyHeadings(benchOut.markdown)

\* A document of three groups, the first of them "2", with an endpoint
\* listed under two of them.
TocWitness ==
    /\ benchOut.op = "markdown"
    /\ ~benchOut.threw
    /\ Len(TocHeadings(benchOut.markdown)) >= 7
    /\ TocHeadings(benchOut.markdown)[1] = <<"group", <<"2">>>>
    /\ \E i, j \in 1..Len(TocHeadings(benchOut.markdown)) :
           /\ i < j
           /\ TocHeadings(benchOut.markdown)[i][1] = "endpoint"
           /\ TocHeadings(benchOut.markdown)[i] = TocHeadings(benchOut.markdown)[j]

\* The place of the H3 section of an endpoint in a document, and the
\* place after the section's end.
SectionStart(md, e) ==
    CHOOSE i \in 1..Len(md) :
        /\ md[i] = "### "
        /\ TextUpTo(md, i + 3, "\n\n") = e.method \o <<" ">> \o e.path

SectionEnd(md, e) == PlaceOf(md, "---\n\n", SectionStart(md, e))

Section(md, e) == SubSeq(md, SectionStart(md, e), SectionEnd(md, e) - 1)

HasPiece(text, piece) == \E i \in 1..Len(text) : text[i] = piece

\* Whether the text holds the example between the fences of a JSON block
\* that follows "**Example:**", as JSON.stringify writes a string.
HasExampleBlock(text, example) ==
    \E i \in 1..Len(text) :
        /\ text[i] = "**Example:**\n\n"
        /\ i + 4 + Len(example) <= Len(text)
        /\ SubSeq(text, i + 1, i + 3 + Len(example))
               = <<"(fence json)\n", "\"">> \o example \o <<"\"">>
        /\ text[i + 4 + Len(example)] = "\n(fence)\n\n"

\* The part of a section before its responses.
BeforeResponses(text) == SubSeq(text, 1, PlaceOf(text, "#### Responses\n\n", 1) - 1)

\* C19, as the claim has it: the section of an endpoint has a "Request
\* Body" subsection exactly when its method is POST, PUT or PATCH and its
\* request body has an example, and the subsection holds the example as
\* pretty-printed JSON.
RequestBodySectionIffExample ==
    (benchOut.op = "markdown" /\ ~benchOut.threw) =>
        \A i \in 1..Len(benchOut.eps) :
            LET e    == benchOut.eps[i]
                text == BeforeResponses(Section(benchOut.markdown, e))
            IN  /\ HasPiece(text, "#### Request Body\n\n")
                       <=> /\ e.method \in {POST, PUT, PATCH}
                           /\ e.requestBody.present
                           /\ e.requestBody.example # <<>>
                /\ HasPiece(text, "#### Request Body\n\n")
                       => HasExampleBlock(text, e.requestBody.example)

\* C19: the section of an endpoint has a "Request Body" subsection exactly
\* when its method is POST, PUT or PATCH and it has a request body; the
\* subsection names the content type, and it holds an example block, the
\* example as pretty-printed JSON, exactly when the request body has an
\* example.
RequestBodySectionIffBody ==
    (benchOut.op = "markdown" /\ ~benchOut.threw) =>
        \A i \in 1..Len(benchOut.eps) :
            LET e    == benchOut.eps[i]
                text == BeforeResponses(Section(benchOut.markdown, e))
                body == /\ e.method \in {POST, PUT, PATCH}
                        /\ e.requestBody.present
            IN  /\ HasPiece(text, "#### Request Body\n\n") <=> body
                /\ HasPiece(text, "**Content Type:** ") <=> body
                /\ HasPiece(text, "**Example:**\n\n")
                       <=> (body /\ e.requestBody.example # <<>>)
                /\ HasPiece(text, "**Example:**\n\n")
                       => HasExampleBlock(text, e.requestBody.example)

\* A document of a POST whose body has an example, a PATCH whose body has
\* none and a DELETE whose body has one.
RequestBodySectionWitness ==
    /\ benchOut.op = "markdown"
    /\ ~benchOut.threw
    /\ \E i, j, k \in 1..Len(benchOut.eps) :
           /\ benchOut.eps[i].method = POST
           /\ benchOut.eps[i].requestBody.example # <<>>
           /\ HasExampleBlock(Section(benchOut.markdown, benchOut.eps[i]),
                              benchOut.eps[i].requestBody.example)
           /\ benchOut.eps[j].method = PATCH
           /\ benchOut.eps[j].requestBody.present
           /\ benchOut.eps[j].requestBody.example = <<>>
           /\ benchOut.eps[k].method = DELETE
           /\ benchOut.eps[k].requestBody.example # <<>>

\* Whether place i of the document is within an example block,
\* <pre class="code"> ... </pre>, where JSON.stringify wrote an example.
InExample(html, i) ==
    \E start \in 1..i :
        /\ html[start] = "<pre class=\"code\">"
        /\ \A k \in start..i : html[k] # "</pre>"

\* C20: in the HTML document the text fields of the project and of the
\* endpoints (name, description, path, summary, descriptions of parameters
\* and responses) are escaped: no character <, >, &, " or ' of the stored
\* data is in the document as it is.  The markup of the template is in
\* pieces of its own, which escaping leaves alone, so a text is escaped when
\* escapeHtml changes nothing in it.
HtmlEscaped ==
    benchOut.op = "html" =>
        \A i \in 1..Len(benchOut.html) :
            InExample(benchOut.html, i)
                \/ escapeHtml(<<benchOut.html[i]>>) = <<benchOut.html[i]>>

\* The texts that follow a mark in a document, each up to its stop, in
\* the order of the document.
MarkedTexts(doc, mark, stop) ==
    LET marks == {i \in 1..Len(doc) : doc[i] = mark}
        nth(k) == CHOOSE i \in marks : Cardinality({j \in marks : j <= i}) = k
    IN  [k \in 1..Cardinality(marks) |-> TextUpTo(doc, nth(k) + 1, stop)]

\* C21: the HTML document has one sidebar link and one endpoint block for
\* each endpoint, in the order of the endpoints; the i-th link goes to the
\* id of the i-th endpoint and the i-th block has that id, so every link
\* leads to one block.
SidebarMatchesBlocks ==
    benchOut.op = "html" =>
        LET ids == [i \in 1..Len(benchOut.eps) |-> NumToStr(benchOut.eps[i]._id)]
        IN  /\ MarkedTexts(benchOut.html, "<li><a href=\"#", "\">") = ids
            /\ MarkedTexts(benchOut.html, "<div class=\"endpoint\" id=\"", "\">") = ids
            /\ \A i, j \in 1..Len(ids) : i # j => ids[i] # ids[j]

\* A document of three endpoints whose ids are not in ascending order.
SidebarWitness ==
    /\ benchOut.op = "html"
    /\ Len(benchOut.eps) = 3
    /\ benchOut.eps[1]._id > benchOut.eps[2]._id
    /\ Len(MarkedTexts(benchOut.html, "<li><a href=\"#", "\">")) = 3

(***************************************************************************)
(* The traversal of the Postman importer as a function of the `item` array *)
(* of a collection, which is built node by node.                           *)
(***************************************************************************)
\* Nodes at the top level of one collection.
MaxNodes == 2

RawBody(raw, rawIsJson) ==
    [present |-> TRUE, mode |-> "raw", rawIsJson |-> rawIsJson, raw |-> raw,
     formdata |-> <<>>, urlencoded |-> <<>>]

FormParam(key, value) == [key |-> key, value |-> value, src |-> <<>>]

FormdataBody ==
    [present |-> TRUE, mode |-> "formdata", rawIsJson |-> FALSE, raw |-> <<>>,
     formdata |-> <<FormParam(<<"k">>, <<"v">>)>>, urlencoded |-> <<>>]

UrlencodedBody ==
    [present |-> TRUE, mode |-> "urlencoded", rawIsJson |-> FALSE, raw |-> <<>>,
     formdata |-> <<>>, urlencoded |-> <<FormParam(<<"k">>, <<"v">>)>>]

\* A leaf with a body.
PostmanBodyLeaf(name, method, url, body) ==
    [PostmanLeaf(name, method, url) EXCEPT !.request.body = body]

\* https://api.x.com/users/{{id}}?active=true
UrlUsers ==
    HttpsPrefix \o <<"api.x.com", "/", "users", "/", "{", "{", "id", "}", "}",
                     "?", "active=true">>

PathUsers == <<"/", "users", "/", "{", "{", "id", "}", "}">>

\* The request of the folder Users: a structured URL with its query.
UsersLeaf ==
    [PostmanLeaf(<<"get user">>, GET, UrlUsers) EXCEPT
        !.request.urlIsObject = TRUE,
        !.request.query = <<[key |-> <<"active">>, value |-> <<"true">>,
                             description |-> <<>>]>>]

UsersFolder == PostmanFolder(<<"Users">>, <<UsersLeaf>>)

\* A node with neither `item` nor `request`.
PostmanBlank ==
    [PostmanLeaf(<<"blank">>, <<>>, <<>>) EXCEPT !.hasRequest = FALSE]

PostmanNodes ==
    {PostmanLeaf(<<"l1">>, GET, UrlA),
     PostmanLeaf(<<"l2">>, <<>>, <<>>),
     PostmanBodyLeaf(<<"l3">>, <<"p", "o", "s", "t">>, <<"u", "/", "1">>,
                     RawBody(<<"{}">>, TRUE)),
     PostmanBodyLeaf(<<"l4">>, PUT, <<"/", "a", "?", "x">>,
                     RawBody(<<"text">>, FALSE)),
     PostmanBodyLeaf(<<"l5">>, DELETE, HttpPrefix \o <<"h">> \o PathUser,
                     FormdataBody),
     PostmanBodyLeaf(<<"l6">>, PATCH, <<"{", "{", "b", "}", "}", "/", "a">>,
                     UrlencodedBody),
     PostmanBodyLeaf(<<"l7">>, POST, HttpsPrefix \o <<"h">>, FormdataBody),
     PostmanLeaf(<<"l8">>, POST, PathA),
     UsersFolder,
     PostmanFolder(<<"A">>,
         <<PostmanLeaf(<<"a1">>, GET, PathA),
           PostmanFolder(<<"B">>,
               <<PostmanLeaf(<<"b1">>, GET, PathADash),
                 PostmanFolder(<<"C">>, <<PostmanLeaf(<<"c1">>, HEAD, PathA)>>),
                 PostmanBodyLeaf(<<"b2">>, POST, PathADash, UrlencodedBody)>>),
           PostmanLeaf(<<"a2">>, OPTIONS, PathA)>>),
     PostmanFolder(<<"E">>, <<>>),
     PostmanBlank}

PostmanAdd(node) ==
    /\ Len(benchEps) < MaxNodes
    /\ benchEps' = Append(benchEps, node)
    /\ benchOut' = [op |-> "none"]
    /\ UNCHANGED <<projects, endpoints, nextId, reqs, nStarted, resp, clock>>

\* parseItems(collection.item)
BenchParseItems ==
    /\ ~parseItemsThrows(benchEps)
    /\ benchOut' = [op |-> "postman", item |-> benchEps,
                    importedEndpoints |-> parseItems(1, benchEps, <<>>)]
    /\ UNCHANGED <<projects, endpoints, nextId, reqs, nStarted, resp, clock,
                   benchEps>>

PostmanNext ==
    \/ \E node \in PostmanNodes : PostmanAdd(node)
    \/ BenchParseItems

PostmanSpec == Init /\ [][PostmanNext]_vars

\* The leaves of a tree in depth-first order, each with the names of the
\* folders it is in, outermost first.
RECURSIVE LeavesOf(_, _)
LeavesOf(items, folders) ==
    IF Len(items) = 0 THEN <<>>
    ELSE (IF items[1].hasItem
          THEN LeavesOf(items[1].item, Append(folders, items[1].name))
          ELSE IF items[1].hasRequest
          THEN <<[leaf |-> items[1], folders |-> folders]>>
          ELSE <<>>)
         \o LeavesOf(Tail(items), folders)

RECURSIVE JoinWithSlash(_)
JoinWithSlash(names) ==
    IF Len(names) = 0 THEN <<>>
    ELSE IF Len(names) = 1 THEN names[1]
    ELSE names[1] \o <<"/">> \o JoinWithSlash(Tail(names))

\* C22: the Postman importer makes one candidate for each leaf, at any
\* depth, in depth-first order of the document; the tags of a candidate are
\* the one tag made of the names of the folders around its leaf, joined
\* with "/" from the outermost in, and no tag for a leaf at the top level.
OneCandidatePerLeaf ==
    benchOut.op = "postman" =>
        LET leaves     == LeavesOf(benchOut.item, <<>>)
            candidates == benchOut.importedEndpoints
        IN  /\ Len(candidates) = Len(leaves)
            /\ \A k \in 1..Len(leaves) :
                   /\ candidates[k].summary = leaves[k].leaf.name
                   /\ candidates[k].tags =
                          IF leaves[k].folders = <<>> THEN <<>>
                          ELSE <<JoinWithSlash(leaves[k].folders)>>

\* A collection of a leaf at the top level and folders three deep, with
\* leaves before and after the folder within.
OneCandidateWitness ==
    /\ benchOut.op = "postman"
    /\ Len(benchOut.importedEndpoints) = 6
    /\ benchOut.importedEndpoints[1].tags = <<>>
    /\ benchOut.importedEndpoints[4].tags = <<(<<"A", "/", "B", "/", "C">>)>>
    /\ benchOut.importedEndpoints[5].tags = <<(<<"A", "/", "B">>)>>
    /\ benchOut.importedEndpoints[6].tags = <<(<<"A">>)>>

\* The path component of the text of a URL: what follows the scheme and
\* the authority, if it has them, up to the query or the fragment, with a
\* "/" in front if it has none.
PathComponent(url) ==
    LET from == IF authorityStart(url) > 0
                THEN firstOf(url, authorityStart(url), {"/", "?", "#"})
                ELSE 1
        raw  == SubSeq(url, from, firstOf(url, from, {"?", "#"}) - 1)
    IN  IF startsWith(raw, <<"/">>) THEN raw ELSE <<"/">> \o raw

\* C23: every candidate of the Postman importer has the method of its
\* request in upper case, GET when the request has none, and a path that
\* starts with "/" and is the path component of the URL of the request,
\* whatever the form of the URL.
PostmanMethodAndPath ==
    benchOut.op = "postman" =>
        LET leaves     == LeavesOf(benchOut.item, <<>>)
            candidates == benchOut.importedEndpoints
        IN  \A k \in 1..Len(candidates) :
                LET request == leaves[k].leaf.request
                IN  /\ candidates[k].method =
                           IF request.method = <<>> THEN GET
                           ELSE toUpperCase(request.method)
                    /\ startsWith(candidates[k].path, <<"/">>)
                    /\ candidates[k].path = PathComponent(request.url)

\* C24: the collection of one folder "Users" with one GET request to
\* https://api.x.com/users/{{id}} and the query parameter active=true gives
\* one endpoint: GET, path /users/{{id}}, tags ["Users"], the one parameter
\* active (query, string, example "true") and one response, 200.
UsersExample ==
    (benchOut.op = "postman" /\ benchOut.item = <<UsersFolder>>) =>
        /\ Len(benchOut.importedEndpoints) = 1
        /\ benchOut.importedEndpoints[1].method = GET
        /\ benchOut.importedEndpoints[1].path = PathUsers
        /\ benchOut.importedEndpoints[1].tags = <<(<<"Users">>)>>
        /\ Len(benchOut.importedEndpoints[1].parameters) = 1
        /\ benchOut.importedEndpoints[1].parameters[1].name = <<"active">>
        /\ benchOut.importedEndpoints[1].parameters[1].in = <<"query">>
        /\ benchOut.importedEndpoints[1].parameters[1].type = <<"string">>
        /\ benchOut.importedEndpoints[1].parameters[1].example = <<"true">>
        /\ Len(benchOut.importedEndpoints[1].responses) = 1
        /\ benchOut.importedEndpoints[1].responses[1].statusCode = 200

\* C25: a candidate of the Postman importer carries a request body exactly
\* when the request of its leaf has a body and its method is POST, PUT or
\* PATCH; the content type is application/json for raw text that parses as
\* JSON, text/plain for raw text that does not, multipart/form-data for the
\* mode formdata and application/x-www-form-urlencoded for urlencoded.
PostmanBodyByMode ==
    benchOut.op = "postman" =>
        LET leaves     == LeavesOf(benchOut.item, <<>>)
            candidates == benchOut.importedEndpoints
        IN  \A k \in 1..Len(candidates) :
                LET body == leaves[k].leaf.request.body
                    requestBody == candidates[k].requestBody
                IN  /\ requestBody.present <=>
                           /\ body.present
                           /\ candidates[k].method \in {POST, PUT, PATCH}
                    /\ requestBody.present =>
                           /\ (body.mode = "raw" /\ body.rawIsJson)
                                  => requestBody.contentType =
                                         <<"application/json">>
                           /\ (body.mode = "raw" /\ ~body.rawIsJson)
                                  => requestBody.contentType = <<"text/plain">>
                           /\ body.mode = "formdata"
                                  => requestBody.contentType =
                                         <<"multipart/form-data">>
                           /\ body.mode = "urlencoded"
                                  => requestBody.contentType =
                                         <<"application/x-www-form-urlencoded">>

\* A collection was imported with a body that was dropped (DELETE) next to
\* one that was kept with a content type other than application/json.
PostmanBodyWitness ==
    /\ benchOut.op = "postman"
    /\ \E k \in 1..Len(benchOut.importedEndpoints) :
           /\ LeavesOf(benchOut.item, <<>>)[k].leaf.request.body.present
           /\ ~benchOut.importedEndpoints[k].requestBody.present
    /\ \E k \in 1..Len(benchOut.importedEndpoints) :
           /\ benchOut.importedEndpoints[k].requestBody.present
           /\ benchOut.importedEndpoints[k].requestBody.contentType
                  # <<"application/json">>

(***************************************************************************)
(* The OpenAPI upload over documents built one operation at a time:        *)
(* routes/upload.js, POST /openapi/:projectId, from the parsed document to *)
(* the candidates.  benchEps holds the document, benchOut what the handler *)
(* made of it.                                                             *)
(***************************************************************************)
MaxOperations == 2

\* The methods of the operations of the one path, in the order they are
\* added.
UploadMethods == <<toLowerCase(GET), toLowerCase(POST), toLowerCase(PUT),
                   toLowerCase(DELETE)>>

UploadResponse(description) == [description |-> description, content |-> <<>>]

\* operation.responses of the documents: keys in the order Object.entries
\* gives them, integer-like keys first.  <<>> is an empty object.
UploadResponses ==
    {<<(<<NumToStr(200), UploadResponse(<<"OK">>)>>)>>,
     <<(<<NumToStr(201), UploadResponse(<<"Created">>)>>),
       (<<NumToStr(404), UploadResponse(<<>>)>>)>>,
     <<(<<(<<"d", "e", "f", "a", "u", "l", "t">>), UploadResponse(<<"Any">>)>>)>>,
     <<(<<NumToStr(200), UploadResponse(<<"OK">>)>>),
       (<<(<<"2", "X", "X">>), UploadResponse(<<"Success">>)>>)>>,
     <<>>}

UploadOperations ==
    {[PlainOperation(<<"s">>) EXCEPT !.responses = r] : r \in UploadResponses}
    \cup {[PlainOperation(<<"s">>) EXCEPT !.hasResponses = FALSE,
                                          !.responses = <<>>]}

UploadInfos ==
    {[title |-> t, description |-> d, version |-> v] :
        t \in {<<>>, <<"Pets">>}, d \in {<<>>, <<"About pets">>},
        v \in {<<>>, Version210}}

UploadServers == {<<>>, <<"https://pets.example.com">>}

UploadProjects ==
    {[exists |-> TRUE, owner |-> "u1", name |-> <<"Api">>,
      description |-> <<>>, baseUrl |-> <<>>, version |-> DefaultVersion,
      isPublic |-> FALSE, collaborators |-> <<>>],
     [exists |-> TRUE, owner |-> "u1", name |-> <<"Shop">>,
      description |-> <<"A shop">>, baseUrl |-> <<"https://shop.example.com">>,
      version |-> Version20, isPublic |-> FALSE, collaborators |-> <<>>]}

\* A file is uploaded: a document with one path and no operation yet.  A
\* document without `info` carries NoInfo.
UploadStart(hasInfo, info, serverUrl) ==
    /\ benchEps = <<>>
    /\ hasInfo \/ info = NoInfo
    /\ benchEps' = <<[hasInfo |-> hasInfo, info |-> info,
                      serverUrl |-> serverUrl, hasPaths |-> TRUE,
                      paths |-> <<(<<PathA, <<>> >>)>>]>>
    /\ benchOut' = [op |-> "none"]
    /\ UNCHANGED <<projects, endpoints, nextId, reqs, nStarted, resp, clock>>

\* The document has one more operation under its path.
UploadAddOperation(operation) ==
    /\ benchEps # <<>>
    /\ Len(benchEps[1].paths[1][2]) < MaxOperations
    /\ benchEps' =
           <<[benchEps[1] EXCEPT
                !.paths[1][2] =
                    Append(@, <<UploadMethods[Len(@) + 1], operation>>)]>>
    /\ benchOut' = [op |-> "none"]
    /\ UNCHANGED <<projects, endpoints, nextId, reqs, nStarted, resp, clock>>

\* The handler from `if (spec.info)` to the end of the path loop: the
\* project as findByIdAndUpdate leaves it, and the candidates.
BenchOpenapiUpload(project) ==
    /\ benchEps # <<>>
    /\ ~importPathsThrows(benchEps[1].paths)
    /\ benchOut' = [op |-> "upload", spec |-> benchEps[1],
                    project |-> project,
                    updated |-> openapiProjectUpdate(project, benchEps[1]),
                    importedEndpoints |-> importPaths(1, benchEps[1].paths)]
    /\ UNCHANGED <<projects, endpoints, nextId, reqs, nStarted, resp, clock,
                   benchEps>>

UploadNext ==
    \/ \E hasInfo \in BOOLEAN, info \in UploadInfos, serverUrl \in UploadServers :
           UploadStart(hasInfo, info, serverUrl)
    \/ \E operation \in UploadOperations : UploadAddOperation(operation)
    \/ \E project \in UploadProjects : BenchOpenapiUpload(project)

UploadSpec == Init /\ [][UploadNext]_vars

\* C26: on an OpenAPI import, info.title, info.description, info.version
\* and servers[0].url are applied to the name, the description, the version
\* and the baseUrl of the project, each when the document has it, and a
\* field of the project whose source the document lacks is left as it was.
ProjectUpdatedFromDocument ==
    benchOut.op = "upload" =>
        LET spec   == benchOut.spec
            before == benchOut.project
            after  == benchOut.updated
        IN  /\ after.name =
                   IF spec.info.title # <<>> THEN spec.info.title
                   ELSE before.name
            /\ after.description =
                   IF spec.info.description # <<>> THEN spec.info.description
                   ELSE before.description
            /\ after.version =
                   IF spec.info.version # <<>> THEN spec.info.version
                   ELSE before.version
            /\ after.baseUrl =
                   IF spec.serverUrl # <<>> THEN spec.serverUrl
                   ELSE before.baseUrl
            /\ after.owner = before.owner
            /\ after.isPublic = before.isPublic
            /\ after.collaborators = before.collaborators

\* Whether every character of a key is a digit.
IsNumericKey(key) == Len(key) > 0 /\ \A i \in 1..Len(key) : IsDigit(key[i])

\* C27: a candidate of the OpenAPI importer has one response per key of
\* operation.responses, with the number the key writes as its statusCode,
\* or 200 when the key is not a number ("default", "2XX"); an operation
\* without responses gets the one response 200 "Successful response"; so
\* the responses of a candidate are never empty and their status codes lie
\* in 100..599.
OneResponsePerKey ==
    benchOut.op = "upload" =>
        LET operations == benchOut.spec.paths[1][2]
            candidates == benchOut.importedEndpoints
        IN  /\ Len(candidates) = Len(operations)
            /\ \A k \in 1..Len(candidates) :
                   LET declared  == operations[k][2].responses
                       responses == candidates[k].responses
                   IN  /\ Len(declared) > 0 =>
                              /\ Len(responses) = Len(declared)
                              /\ \A i \in 1..Len(declared) :
                                     responses[i].statusCode =
                                         IF IsNumericKey(declared[i][1])
                                         THEN DigitsVal(declared[i][1])
                                         ELSE 200
                       /\ Len(declared) = 0 =>
                              /\ Len(responses) = 1
                              /\ responses[1].statusCode = 200
                              /\ responses[1].description = SuccessfulResponse
                       /\ Len(responses) > 0
                       /\ \A i \in 1..Len(responses) :
                              responses[i].statusCode \in 100..599

(***************************************************************************)
(* The documentation routes by every kind of requester: the owner, a       *)
(* collaborator, a user who is neither, and a request without userId (the  *)
(* /public routes have no auth middleware, optionalAuth sets no userId     *)
(* without a valid token).                                                 *)
(***************************************************************************)
Requesters == Users \cup {NoUserId}

ExportFormats == {"openapi", "markdown", "html", "pdf"}

PrivateProject(owner, collaborators) ==
    [exists |-> TRUE, owner |-> owner, name |-> <<"Api">>,
     description |-> <<>>, baseUrl |-> <<>>, version |-> DefaultVersion,
     isPublic |-> FALSE, collaborators |-> collaborators]

\* Project 1 belongs to u1 and is private, shared with u2, or public;
\* project 2 belongs to u2 or does not exist.
AccessInit ==
    /\ projects \in
           {[p \in ProjectIds |-> IF p = 1 THEN first ELSE second] :
               first \in {PrivateProject("u1", <<>>),
                          PrivateProject("u1", <<[user |-> "u2",
                                                  role |-> "viewer"]>>),
                          [PrivateProject("u1", <<>>) EXCEPT !.isPublic = TRUE]},
               second \in {NoProject, PrivateProject("u2", <<>>)}}
    /\ endpoints = <<savedDoc(createData(1, EndpointBody(POST, PathA)), 1)>>
    /\ nextId = 2
    /\ reqs = [s \in Slots |-> Idle]
    /\ nStarted = 0
    /\ resp = BlankResp
    /\ clock = 1
    /\ benchEps = <<>>
    /\ benchOut = [op |-> "none"]

\* exportDocumentation: the access check, then the switch on the format.
\* The markdown and html branches call the handler of that format with the
\* same req and res, which sends its response.
ExportDocumentation(user, id, format) ==
    /\ CanStart
    /\ Served
    /\ projects' = afterRead(projects, id)
    /\ LET status == readStatus(projects, id, user)
           input  == <<projects[id], sortByOrder(find(endpoints, id))>>
           inner  == IF format = "markdown" THEN "generateMarkdownDocs"
                     ELSE "generateHTML"
       IN  IF status # 0
           THEN Answer("exportDocumentation", id, status, "access")
           ELSE IF format = "openapi"
           THEN Respond([BlankResp EXCEPT
                           !.op = "exportDocumentation", !.projectId = id,
                           !.status = 200, !.alone = NoneInFlight,
                           !.input = input,
                           !.body = exportDocumentationPaths(<<>>, input[2])])
           ELSE IF format \in {"markdown", "html"}
           THEN IF format = "markdown" /\ groupByTagThrows(input[2])
                THEN Answer("exportDocumentation", id, 500, "render")
                ELSE Respond([BlankResp EXCEPT
                                !.op = "exportDocumentation", !.projectId = id,
                                !.status = 200, !.alone = NoneInFlight,
                                !.input = input,
                                !.body = exportBody(inner, input[1], input[2])])
           ELSE Answer("exportDocumentation", id, 400, "format")
    /\ UNCHANGED <<endpoints, nextId, benchEps, benchOut>>

AccessNext ==
    \/ \E user \in Requesters, id \in ProjectIds : GenerateOpenAPISpec(user, id)
    \/ \E user \in Requesters, id \in ProjectIds : GenerateMarkdownDocs(user, id)
    \/ \E user \in Requesters, id \in ProjectIds : GenerateHTML(user, id)
    \/ \E user \in Requesters, id \in ProjectIds, format \in ExportFormats :
           ExportDocumentation(user, id, format)

AccessSpec == AccessInit /\ [][AccessNext]_vars

\* Neither the owner nor a collaborator of the project.
Outsider(project, user) ==
    /\ project.owner # user
    /\ \A i \in 1..Len(project.collaborators) :
           project.collaborators[i].user # user

\* The handler of a documentation route answers this requester.
DocumentationStep(user, id) ==
    \/ GenerateOpenAPISpec(user, id)
    \/ GenerateMarkdownDocs(user, id)
    \/ GenerateHTML(user, id)
    \/ \E format \in ExportFormats : ExportDocumentation(user, id, format)

\* C28: for a private project, a request to generateOpenAPISpec,
\* generateMarkdownDocs, generateHTML or exportDocumentation by a requester
\* who is neither its owner nor a collaborator, a request without userId
\* included, is answered 403 "Access denied" and carries no documentation.
OutsiderDenied ==
    [][\A user \in Requesters, id \in ProjectIds :
           (/\ projects[id].exists
            /\ ~projects[id].isPublic
            /\ Outsider(projects[id], user)
            /\ DocumentationStep(user, id))
               => /\ resp'.status = 403
                  /\ resp'.stage = "access"
                  /\ resp'.body = <<>>]_vars

\* C29: when an upload request for which multer stored a file finishes,
\* the file has been deleted, on the success path and on every failure
\* path: project not found, insufficient permissions, invalid format, an
\* exception while parsing or saving.
TempFileDeleted ==
    resp.op \in {"importPostman", "importOpenAPI"} => resp.unlinked

(***************************************************************************)
(* reorderEndpoints: PUT /endpoints/project/:projectId/reorder, over two   *)
(* projects of two owners.                                                 *)
(***************************************************************************)
MaxOrders == 2

\* Endpoints 1 and 2 belong to project 1 of u1, endpoint 3 to project 2 of
\* u2.
ReorderInit ==
    /\ projects = [p \in ProjectIds |->
                     IF p = 1 THEN PrivateProject("u1", <<>>)
                     ELSE PrivateProject("u2", <<>>)]
    /\ endpoints = <<savedDoc(createData(1, EndpointBody(GET, PathA)), 1),
                     savedDoc(createData(1, EndpointBody(POST, PathA)), 2),
                     savedDoc(createData(2, EndpointBody(GET, PathA)), 3)>>
    /\ nextId = 4
    /\ reqs = [s \in Slots |-> Idle]
    /\ nStarted = 0
    /\ resp = BlankResp
    /\ clock = 1
    /\ benchEps = <<>>
    /\ benchOut = [op |-> "none"]

\* req.body.endpointOrders: up to MaxOrders pairs { id, order }.
EndpointOrders ==
    UNION {[1..n -> [id : 1..3, order : 0..2]] : n \in 1..MaxOrders}

\* Endpoint.findByIdAndUpdate(id, { order }, { new: true })
orderUpdated(store, id, order) ==
    [i \in 1..Len(store) |->
        IF store[i]._id = id THEN [store[i] EXCEPT !.order = order]
        ELSE store[i]]

\* endpointOrders.map(...): the updates, in the order they are issued.
RECURSIVE ordersApplied(_, _)
ordersApplied(store, endpointOrders) ==
    IF Len(endpointOrders) = 0 THEN store
    ELSE ordersApplied(orderUpdated(store, endpointOrders[1].id,
                                    endpointOrders[1].order),
                       Tail(endpointOrders))

ReorderEndpoints(user, projectId, endpointOrders) ==
    /\ CanStart
    /\ Served
    /\ LET status == accessStatus(projects, projectId, user, "editor")
       IN  IF status # 0
           THEN /\ Answer("reorderEndpoints", projectId, status, "access")
                /\ UNCHANGED endpoints
           ELSE /\ endpoints' = ordersApplied(endpoints, endpointOrders)
                /\ Answer("reorderEndpoints", projectId, 200, "")
    /\ UNCHANGED <<projects, nextId, benchEps, benchOut>>

ReorderNext ==
    \E user \in Users, projectId \in ProjectIds, endpointOrders \in EndpointOrders :
        ReorderEndpoints(user, projectId, endpointOrders)

ReorderSpec == ReorderInit /\ [][ReorderNext]_vars

\* C30: a reorderEndpoints request for a project changes the order of
\* endpoints of that project only: every endpoint of another project, and
\* every field other than order, is as it was.
ReorderWithinProject ==
    [][(resp'.at # resp.at /\ resp'.op = "reorderEndpoints") =>
           /\ Len(endpoints') = Len(endpoints)
           /\ \A i \in 1..Len(endpoints) :
                  /\ endpoints[i].projectId # resp'.projectId
                         => endpoints'[i] = endpoints[i]
                  /\ [endpoints'[i] EXCEPT !.order = endpoints[i].order]
                         = endpoints[i]]_vars

====
